---- MODULE Spec2Model ----
(***************************************************************************)
(* Model of the stock-analysis backend: the provider-fusion layer          *)
(* (StockService over YahooFinanceService and FinnhubService) and the      *)
(* batch analysis routes built on it.                                      *)
(*                                                                         *)
(* JavaScript values are tagged records so that truthiness (the `||` and   *)
(* `&&` chains of the source) is computed, not assumed.                    *)
(***************************************************************************)
EXTENDS Integers, Sequences, FiniteSets, TLC

VARIABLES pc, op, args, calls, result, holdings, advice, enriched

vars == <<pc, op, args, calls, result, holdings, advice, enriched>>

(***************************************************************************)
(* JavaScript value layer                                                  *)
(***************************************************************************)
Undef == [t |-> "undefined"]
Null == [t |-> "null"]
NaN == [t |-> "NaN"]
Num(n) == [t |-> "number", v |-> n]
Str(s) == [t |-> "string", v |-> s]

Arr(a) == [t |-> "array", v |-> a]

IsNum(x) == x.t = "number"
IsArr(x) == x.t = "array"

\* ToBoolean: undefined, null, NaN, 0 and "" are falsy; arrays are truthy
Truthy(x) ==
    CASE x.t = "string" -> x.v # ""
      [] x.t = "number" -> x.v # 0
      [] x.t = "array" -> TRUE
      [] OTHER -> FALSE

\* a || b
Or(a, b) == IF Truthy(a) THEN a ELSE b

\* obj?.field on a record-or-null value; a field the payload lacks reads undefined
Get(obj, f) ==
    IF obj = Null \/ obj = Undef THEN Undef
    ELSE IF f \in DOMAIN obj THEN obj[f] ELSE Undef

\* a - b on numbers; anything else yields NaN
JsSub(a, b) == IF IsNum(a) /\ IsNum(b) THEN Num(a.v - b.v) ELSE NaN

\* completion of an awaited call: a value or a thrown error
Returned(v) == [threw |-> FALSE, value |-> v]
Thrown(e) == [threw |-> TRUE, error |-> e]

\* one provider call of the log: who was called, whether its upstream request
\* was answered, and how the call completed
Call(svc, fn, answered, out) == [svc |-> svc, fn |-> fn, answered |-> answered, out |-> out]

(***************************************************************************)
(* Inputs                                                                  *)
(***************************************************************************)
Symbols == {"AAPL", "TSLA"}

\* errors keep the identity of the provider call that raised them
AxiosMessages == {"timeout of 10000ms exceeded", "Request failed with status code 404"}
YahooErrors == {[by |-> "yahoo", message |-> m] : m \in AxiosMessages}
FinnhubErrors == {[by |-> "finnhub", message |-> m] : m \in AxiosMessages}
YahooTypeError == [by |-> "yahoo", message |-> "Cannot read properties of undefined"]
FinnhubTypeError == [by |-> "finnhub", message |-> "Cannot read properties of undefined"]

HttpFail(errs) == {[ok |-> FALSE, error |-> e] : e \in errs}

(***************************************************************************)
(* Quotes                                                                  *)
(***************************************************************************)
\* upstream chart payloads of the primary: a failed request, a body without
\* result[0], or a body whose meta may lack the market price
YahooQuoteResponses(symbol) ==
    HttpFail(YahooErrors)
    \cup {[ok |-> TRUE, malformed |-> TRUE]}
    \cup {[ok |-> TRUE, malformed |-> FALSE,
           meta |-> [symbol |-> Str(symbol), regularMarketPrice |-> p,
                     chartPreviousClose |-> Num(95)],
           volume |-> v] : p \in {Undef, Num(100)}, v \in {Null, Num(7)}}

yahoo_getQuote(symbol, resp) ==
    IF ~resp.ok THEN Thrown(resp.error)
    ELSE IF resp.malformed THEN Thrown(YahooTypeError)
    ELSE Returned([symbol |-> resp.meta.symbol,
                   currentPrice |-> resp.meta.regularMarketPrice,
                   change |-> JsSub(resp.meta.regularMarketPrice, resp.meta.chartPreviousClose),
                   previousClose |-> resp.meta.chartPreviousClose,
                   volume |-> Or(resp.volume, Num(0))])

\* upstream quote payloads of the secondary: a failed request, an empty body,
\* the all-zero body it serves for unknown symbols, or a priced body
FinnhubQuoteResponses ==
    HttpFail(FinnhubErrors)
    \cup {[ok |-> TRUE, data |-> d] :
            d \in {[c |-> Undef, d |-> Undef, pc |-> Undef],
                   [c |-> Num(0), d |-> Null, pc |-> Num(0)],
                   [c |-> Num(101), d |-> Num(1), pc |-> Num(100)]}}

finnhub_getQuote(symbol, resp) ==
    IF ~resp.ok THEN Thrown(resp.error)
    ELSE Returned([symbol |-> Str(symbol),
                   currentPrice |-> resp.data.c,
                   change |-> resp.data.d,
                   previousClose |-> resp.data.pc])

\* does StockService.getQuote enter its catch block and consult the secondary
getQuote_M_always(primary) == TRUE
getQuote_fallsBack(primary) == primary.threw

\* the error StockService.getQuote throws when both providers failed
getQuote_M_throwErr(error, err) == err
getQuote_rethrow(error, err) == error

\* StockService.getQuote: the calls it makes, in order, and its completion
getQuote(symbol, yResp, fResp) ==
    LET y == yahoo_getQuote(symbol, yResp)
        f == finnhub_getQuote(symbol, fResp)
        yCall == Call("yahoo", "getQuote", yResp.ok, y)
        fCall == Call("finnhub", "getQuote", fResp.ok, f)
    IN  IF ~getQuote_fallsBack(y)
        THEN [calls |-> <<yCall>>, out |-> y]
        ELSE [calls |-> <<yCall, fCall>>,
              out |-> IF ~f.threw THEN Returned(f.value)
                      ELSE Thrown(getQuote_rethrow(Get(y, "error"), f.error))]

(***************************************************************************)
(* Company profiles                                                        *)
(***************************************************************************)
ProfileFields ==
    {"name", "country", "currency", "exchange", "finnhubIndustry",
     "marketCapitalization", "weburl"}

\* the record both services hard-code when nothing is known
SentinelProfile(symbol) ==
    [name |-> Str(symbol), country |-> Str("N/A"), currency |-> Str("USD"),
     exchange |-> Str("N/A"), finnhubIndustry |-> Str("N/A"),
     marketCapitalization |-> Num(0), weburl |-> Str("")]

Billion == 1000000000

\* quoteSummary bodies of the primary: each module field present or absent
YahooSummaryResponses ==
    HttpFail(YahooErrors)
    \cup {[ok |-> TRUE,
           price |-> [shortName |-> n, currency |-> cur, marketCap |-> mc],
           profile |-> [country |-> co, industry |-> ind, website |-> web],
           quoteType |-> [exchange |-> ex]] :
            n \in {Undef, Str("N/A"), Str("Acme Corp")},
            cur \in {Undef, Str("EUR")},
            mc \in {Undef, Num(2 * Billion)},
            co \in {Undef, Str("United States")},
            ind \in {Undef, Str("Tech")},
            web \in {Undef, Str("https://acme.example")},
            ex \in {Undef, Str("NMS")}}

\* chart bodies of the primary, used when quoteSummary failed
YahooChartResponses ==
    HttpFail(YahooErrors)
    \cup {[ok |-> TRUE, meta |-> [longName |-> n, exchangeName |-> ex, currency |-> cur]] :
            n \in {Undef, Str("Acme Corp")},
            ex \in {Undef, Str("NMS"), Str("XETRA")},
            cur \in {Undef, Str("EUR")}}

\* what the primary's two requests answer: the chart request is only issued
\* after quoteSummary failed
NotRequested == [ok |-> FALSE, error |-> YahooTypeError]
YahooProfileUpstreams ==
    {[qs |-> q, chart |-> NotRequested] : q \in {r \in YahooSummaryResponses : r.ok}}
    \cup {[qs |-> q, chart |-> c] :
            q \in {r \in YahooSummaryResponses : ~r.ok}, c \in YahooChartResponses}

guessCountryFromExchange(exchange) ==
    IF exchange \in {Str("NMS"), Str("NYQ"), Str("PCX")} THEN Str("US")
    ELSE IF exchange \in {Str("HKG"), Str("HKD")} THEN Str("HK")
    ELSE IF exchange = Str("LSE") THEN Str("GB")
    ELSE IF exchange = Str("FRA") THEN Str("DE")
    ELSE IF exchange = Str("JPX") THEN Str("JP")
    ELSE Str("N/A")

\* YahooFinanceService.getCompanyProfile: quoteSummary, else chart, else sentinels
yahoo_getCompanyProfile(symbol, qs, chart) ==
    IF qs.ok
    THEN Returned(
           [name |-> Or(Or(Or(Get(qs.price, "shortName"), Get(qs.price, "longName")),
                           Get(qs.quoteType, "longName")), Str(symbol)),
            country |-> Or(Get(qs.profile, "country"), Str("N/A")),
            currency |-> Or(Get(qs.price, "currency"), Str("USD")),
            exchange |-> Or(Or(Get(qs.quoteType, "exchange"), Get(qs.price, "exchangeName")),
                            Str("N/A")),
            finnhubIndustry |-> Or(Or(Get(qs.profile, "industry"), Get(qs.profile, "sector")),
                                   Str("N/A")),
            marketCapitalization |->
                IF Truthy(qs.price.marketCap) THEN Num(qs.price.marketCap.v \div Billion)
                ELSE Num(0),
            weburl |-> Or(Get(qs.profile, "website"), Str(""))])
    ELSE IF chart.ok
    THEN Returned(
           [name |-> Or(Or(Get(chart.meta, "longName"), Get(chart.meta, "shortName")),
                        Str(symbol)),
            country |-> guessCountryFromExchange(chart.meta.exchangeName),
            currency |-> Or(chart.meta.currency, Str("USD")),
            exchange |-> Or(chart.meta.exchangeName, Str("N/A")),
            finnhubIndustry |-> Str("N/A"),
            marketCapitalization |-> Num(0),
            weburl |-> Str("")])
    ELSE Returned(SentinelProfile(symbol))

\* profile2 bodies of the secondary: each field present or absent
FinnhubProfileResponses ==
    HttpFail(FinnhubErrors)
    \cup {[ok |-> TRUE,
           data |-> [name |-> n, country |-> co, currency |-> cur, exchange |-> ex,
                     finnhubIndustry |-> ind, marketCapitalization |-> mc, weburl |-> web]] :
            n \in {Undef, Str("Acme")},
            co \in {Undef, Str("US")},
            cur \in {Undef, Str("HKD")},
            ex \in {Undef, Str("NASDAQ")},
            ind \in {Null, Str("Technology")},
            mc \in {Undef, Num(3)},
            web \in {Undef, Str("https://acme.test")}}

finnhub_getCompanyProfile(symbol, resp) ==
    IF ~resp.ok THEN Thrown(resp.error) ELSE Returned(resp.data)

hasBasicInfo(yahooProfile, symbol) ==
    /\ yahooProfile # Null
    /\ Truthy(Get(yahooProfile, "name"))
    /\ Get(yahooProfile, "name") # Str(symbol)

hasIndustry(yahooProfile) ==
    Truthy(Or(Get(yahooProfile, "finnhubIndustry"), Get(yahooProfile, "industry")))

hasMarketCap(yahooProfile) ==
    /\ Truthy(Get(yahooProfile, "marketCapitalization"))
    /\ Get(yahooProfile, "marketCapitalization").v > 0

\* the test that sends StockService.getProfile to the secondary
getProfile_needsFinnhub(yahooProfile, symbol) ==
    ~hasIndustry(yahooProfile) \/ ~hasMarketCap(yahooProfile)

\* what a failed secondary call leaves StockService.getProfile with
getProfile_M_propagate(f) == f
getProfile_finnhubCaught(f) == Returned(Null)

\* the field-by-field merge, primary first
mergedProfile(yahooProfile, finnhubProfile, symbol) ==
    [name |-> Or(Or(Get(yahooProfile, "name"), Get(finnhubProfile, "name")), Str(symbol)),
     country |-> Or(Or(Get(yahooProfile, "country"), Get(finnhubProfile, "country")),
                    Str("N/A")),
     currency |-> Or(Or(Get(yahooProfile, "currency"), Get(finnhubProfile, "currency")),
                     Str("USD")),
     exchange |-> Or(Or(Get(yahooProfile, "exchange"), Get(finnhubProfile, "exchange")),
                     Str("N/A")),
     finnhubIndustry |->
         Or(Or(Or(Get(yahooProfile, "finnhubIndustry"), Get(yahooProfile, "industry")),
               Get(finnhubProfile, "finnhubIndustry")), Str("N/A")),
     marketCapitalization |->
         Or(Or(Get(yahooProfile, "marketCapitalization"),
               Get(finnhubProfile, "marketCapitalization")), Num(0)),
     weburl |-> Or(Or(Get(yahooProfile, "weburl"), Get(finnhubProfile, "weburl")), Str(""))]

\* StockService.getProfile: the calls it makes, in order, and its completion
getProfile(symbol, qs, chart, fResp) ==
    LET y == yahoo_getCompanyProfile(symbol, qs, chart)
        yCall == Call("yahoo", "getCompanyProfile", qs.ok \/ chart.ok, y)
        f == finnhub_getCompanyProfile(symbol, fResp)
        fCall == Call("finnhub", "getCompanyProfile", fResp.ok, f)
        fUsed == IF f.threw THEN getProfile_finnhubCaught(f) ELSE f
    IN  IF y.threw
        THEN [calls |-> <<yCall>>, out |-> Returned(SentinelProfile(symbol))]
        ELSE IF ~getProfile_needsFinnhub(y.value, symbol)
        THEN [calls |-> <<yCall>>, out |-> Returned(mergedProfile(y.value, Null, symbol))]
        ELSE [calls |-> <<yCall, fCall>>,
              out |-> IF fUsed.threw THEN fUsed
                      ELSE Returned(mergedProfile(y.value, fUsed.value, symbol))]

(***************************************************************************)
(* News                                                                    *)
(***************************************************************************)
MaxNews == 2

Limits == 1..MaxNews

YahooNewsItem(i) == [title |-> Str("headline"), summary |-> Undef,
                     publisher |-> Str("Reuters"), id |-> i]
FinnhubNewsItem(i) == [headline |-> Str("story"), summary |-> Str("text"),
                       source |-> Str("CNBC"), id |-> i]

\* search bodies of the primary carrying news: failed, no news key, or n items
YahooNewsResponses ==
    HttpFail(YahooErrors)
    \cup {[ok |-> TRUE, news |-> Undef]}
    \cup {[ok |-> TRUE, news |-> Arr([i \in 1..n |-> YahooNewsItem(i)])] : n \in 0..MaxNews}

\* company-news bodies of the secondary: failed, not an array, or n items
FinnhubNewsResponses ==
    HttpFail(FinnhubErrors)
    \cup {[ok |-> TRUE, data |-> Undef]}
    \cup {[ok |-> TRUE, data |-> Arr([i \in 1..n |-> FinnhubNewsItem(i)])] : n \in 0..(MaxNews + 1)}

yahoo_getNews(symbol, limit, resp) ==
    IF ~resp.ok THEN Returned(<<>>)
    ELSE LET newsItems == IF IsArr(resp.news) THEN resp.news.v ELSE <<>>
         IN  Returned([i \in 1..Len(newsItems) |->
                        [headline |-> newsItems[i].title,
                         summary |-> Or(newsItems[i].summary, newsItems[i].title),
                         source |-> newsItems[i].publisher,
                         id |-> newsItems[i].id]])

finnhub_getNews(symbol, limit, resp) ==
    IF ~resp.ok \/ ~IsArr(resp.data) THEN Returned(<<>>)
    ELSE LET kept == SubSeq(resp.data.v, 1,
                            IF Len(resp.data.v) < limit THEN Len(resp.data.v) ELSE limit)
         IN  Returned([i \in 1..Len(kept) |->
                        [headline |-> kept[i].headline,
                         summary |-> kept[i].summary,
                         source |-> kept[i].source,
                         id |-> kept[i].id]])

\* the test that makes StockService.getNews return the primary's news
getNews_M_anyPrimary(news) == TRUE
getNews_hasNews(news) == Len(news) > 0

\* StockService.getNews: the calls it makes, in order, and its completion
getNews(symbol, limit, yResp, fResp) ==
    LET y == yahoo_getNews(symbol, limit, yResp)
        yCall == Call("yahoo", "getNews", yResp.ok, y)
        f == finnhub_getNews(symbol, limit, fResp)
        fCall == Call("finnhub", "getNews", fResp.ok, f)
    IN  IF y.threw
        THEN [calls |-> <<yCall>>, out |-> Returned(<<>>)]
        ELSE IF getNews_hasNews(y.value)
        THEN [calls |-> <<yCall>>, out |-> y]
        ELSE [calls |-> <<yCall, fCall>>,
              out |-> IF f.threw THEN Returned(<<>>) ELSE f]

(***************************************************************************)
(* Symbol search                                                           *)
(***************************************************************************)
Queries == {"AA", "TS"}

\* search bodies of the primary: failed, no quotes key, or a mix of types
YahooSearchResponses ==
    HttpFail(YahooErrors)
    \cup {[ok |-> TRUE, quotes |-> q] :
            q \in {Undef, Arr(<<>>),
                   Arr(<<[symbol |-> Str("AAPL"), quoteType |-> Str("EQUITY")]>>),
                   Arr(<<[symbol |-> Str("AAPL"), quoteType |-> Str("EQUITY")],
                         [symbol |-> Str("AAXJ"), quoteType |-> Str("ETF")]>>)}}

\* search bodies of the secondary: failed, no result key, or matches
FinnhubSearchResponses ==
    HttpFail(FinnhubErrors)
    \cup {[ok |-> TRUE, result |-> r] :
            r \in {Undef, Arr(<<>>),
                   Arr(<<[symbol |-> Str("AAPL"), type |-> Str("Common Stock")]>>)}}

yahoo_searchSymbol(query, resp) ==
    IF ~resp.ok THEN Returned(<<>>)
    ELSE LET quotes == IF IsArr(resp.quotes) THEN resp.quotes.v ELSE <<>>
             equity == SelectSeq(quotes, LAMBDA q : q.quoteType = Str("EQUITY"))
         IN  Returned([i \in 1..Len(equity) |->
                        [symbol |-> equity[i].symbol,
                         name |-> Or(Or(Get(equity[i], "longname"), Get(equity[i], "shortname")),
                                     equity[i].symbol),
                         type |-> equity[i].quoteType,
                         region |-> Or(Get(equity[i], "region"), Str("US"))]])

finnhub_searchSymbol(query, resp) ==
    IF ~resp.ok THEN Thrown(resp.error)
    ELSE IF ~IsArr(resp.result) THEN Thrown(FinnhubTypeError)
    ELSE Returned([i \in 1..Len(resp.result.v) |->
                    [symbol |-> resp.result.v[i].symbol,
                     type |-> resp.result.v[i].type]])

\* StockService.searchSymbol: the calls it makes, in order, and its completion
searchSymbol(query, yResp, fResp) ==
    LET y == yahoo_searchSymbol(query, yResp)
        yCall == Call("yahoo", "searchSymbol", yResp.ok, y)
        f == finnhub_searchSymbol(query, fResp)
        fCall == Call("finnhub", "searchSymbol", fResp.ok, f)
    IN  IF ~y.threw
        THEN [calls |-> <<yCall>>, out |-> y]
        ELSE [calls |-> <<yCall, fCall>>,
              out |-> IF f.threw THEN Returned(<<>>) ELSE f]

(***************************************************************************)
(* Historical series                                                       *)
(***************************************************************************)
MinHistory == 200

ExtraDays == 1

SeriesLengths == {0, 1, MinHistory - 1, MinHistory, MinHistory + ExtraDays}

DaysBack == {30, 365}

\* chart bodies of the primary for a date range: failed, no result, a result
\* without timestamps, or n trading days whose first close may be missing
YahooHistoryResponses ==
    HttpFail(YahooErrors)
    \cup {[ok |-> TRUE, result |-> Undef]}
    \cup {[ok |-> TRUE, result |-> [timestamp |-> Undef, close |-> Arr(<<>>)]]}
    \cup {[ok |-> TRUE,
           result |-> [timestamp |-> Arr([i \in 1..n |-> i]),
                       close |-> Arr([i \in 1..n |->
                                        IF i = 1 /\ gap THEN Null ELSE Num(100)])]] :
            n \in SeriesLengths, gap \in BOOLEAN}

NoHistoryError == [by |-> "yahoo", message |-> "No historical data"]

yahoo_getHistoricalData(symbol, daysBack, resp) ==
    IF ~resp.ok THEN Thrown(resp.error)
    ELSE IF resp.result = Undef \/ ~IsArr(resp.result.timestamp) THEN Thrown(NoHistoryError)
    ELSE Returned([timestamps |-> resp.result.timestamp.v,
                   close |-> [i \in 1..Len(resp.result.close.v) |->
                                Or(resp.result.close.v[i], Num(0)).v]])

\* the validation StockService.getCandles applies to the primary's series
getCandles_M_minWindow(candles) == Len(candles.timestamps) < MinHistory
getCandles_isEmpty(candles) == Len(candles.timestamps) = 0

\* the error StockService.getCandles throws, built around the cause's message
getCandles_wrap(symbol, cause) == [by |-> "stockService", symbol |-> symbol, cause |-> cause]

\* StockService.getCandles: the calls it makes and its completion
getCandles(symbol, daysBack, resp) ==
    LET y == yahoo_getHistoricalData(symbol, daysBack, resp)
        yCall == Call("yahoo", "getHistoricalData", resp.ok, y)
    IN  [calls |-> <<yCall>>,
         out |-> IF y.threw THEN Thrown(getCandles_wrap(symbol, y.error.message))
                 ELSE IF getCandles_isEmpty(y.value)
                 THEN Thrown(getCandles_wrap(symbol, "empty data"))
                 ELSE y]

(***************************************************************************)
(* Indicator engine                                                        *)
(*                                                                         *)
(* The engine's floating-point values are exact fractions here, kept in    *)
(* lowest terms; toFixed is the decimal rounding it is in the source.      *)
(***************************************************************************)
Abs(x) == IF x < 0 THEN -x ELSE x

RECURSIVE Gcd(_, _)
Gcd(a, b) == IF b = 0 THEN a ELSE Gcd(b, a % b)

Lcm(a, b) == (a \div Gcd(a, b)) * b

\* the fraction n/d, d > 0, in lowest terms
Frac(n, d) ==
    LET g == Gcd(Abs(n), d)
    IN  IF n = 0 THEN [n |-> 0, d |-> 1] ELSE [n |-> n \div g, d |-> d \div g]

Whole(k) == [n |-> k, d |-> 1]

FAdd(x, y) ==
    LET l == Lcm(x.d, y.d) IN Frac(x.n * (l \div x.d) + y.n * (l \div y.d), l)
FNeg(x) == [n |-> -x.n, d |-> x.d]
FSub(x, y) == FAdd(x, FNeg(y))
FAbs(x) == [n |-> Abs(x.n), d |-> x.d]
\* x * k / m for whole k and m > 0
FScale(x, k, m) ==
    LET g == Gcd(Abs(k), x.d)
        h == Gcd(Abs(x.n), m)
    IN  Frac((x.n \div h) * (k \div g), (x.d \div g) * (m \div h))
FLess(x, y) ==
    LET l == Lcm(x.d, y.d) IN x.n * (l \div x.d) < y.n * (l \div y.d)
FPos(x) == x.n > 0
FNegative(x) == x.n < 0
FZero(x) == x.n = 0

\* x / y for y # 0
FDiv(x, y) ==
    LET g == Gcd(Abs(x.n), Abs(y.n))
        h == Gcd(x.d, y.d)
        n == (x.n \div g) * (y.d \div h)
        d == (x.d \div h) * (Abs(y.n) \div g)
    IN  Frac(IF y.n < 0 THEN -n ELSE n, d)

RECURSIVE Pow10(_)
Pow10(k) == IF k = 0 THEN 1 ELSE 10 * Pow10(k - 1)

\* the digits of r/d after the point, k of them, as a whole number, r < d
RECURSIVE Digits(_, _, _)
Digits(r, d, k) ==
    IF k = 0 THEN 0
    ELSE ((r * 10) \div d) * Pow10(k - 1) + Digits((r * 10) % d, d, k - 1)

RECURSIVE Remainder(_, _, _)
Remainder(r, d, k) == IF k = 0 THEN r ELSE Remainder((r * 10) % d, d, k - 1)

\* parseFloat(x.toFixed(k)): the multiple of 10^-k nearest to x, a value
\* exactly halfway going away from zero
toFixed(x, k) ==
    LET a == Abs(x.n)
        whole == a \div x.d
        r == a % x.d
        kept == whole * Pow10(k) + Digits(r, x.d, k)
        rest == Remainder(r, x.d, k)
        m == IF 2 * rest >= x.d THEN kept + 1 ELSE kept
    IN  Frac(IF x.n < 0 THEN -m ELSE m, Pow10(k))

\* prices[from..to] of a sequence, one-based and inclusive
Slice(prices, from, to) == [i \in 1..(to - from + 1) |-> prices[from + i - 1]]

RECURSIVE Sum(_)
Sum(values) ==
    IF Len(values) = 0 THEN Whole(0)
    ELSE IF Len(values) = 1 THEN values[1]
    ELSE LET half == Len(values) \div 2
         IN  FAdd(Sum(Slice(values, 1, half)), Sum(Slice(values, half + 1, Len(values))))

\* the closes of a series as fractions
Prices(closes) == [i \in 1..Len(closes) |-> Whole(closes[i])]

\* calculateSMA: the mean of the last period prices, or null
calculateSMA(prices, period) ==
    IF Len(prices) < period THEN Null
    ELSE FScale(Sum(Slice(prices, Len(prices) - period + 1, Len(prices))), 1, period)

\* calculateSMAHistory: one rounded mean per day from day period on
calculateSMAHistory(prices, period) ==
    IF Len(prices) < period THEN <<>>
    ELSE [j \in 1..(Len(prices) - period + 1) |->
            toFixed(FScale(Sum(Slice(prices, j, j + period - 1)), 1, period), 2)]

\* the smoothing loop shared by the EMA functions: ema += (v - ema) * 2/(period+1)
RECURSIVE Smooth(_, _, _, _)
Smooth(ema, values, i, period) ==
    IF i > Len(values) THEN ema
    ELSE Smooth(FAdd(ema, FScale(FSub(values[i], ema), 2, period + 1)), values, i + 1, period)

\* calculateEMA: seeded with the mean of the first period prices
calculateEMA(prices, period) ==
    IF Len(prices) < period THEN Null
    ELSE Smooth(FScale(Sum(Slice(prices, 1, period)), 1, period), prices, period + 1, period)

\* calculateEMAAtIndex, index zero-based as in the source
calculateEMAAtIndex(prices, period, index) ==
    IF index < period - 1 THEN Null
    ELSE LET slice == Slice(prices, 1, IF index + 1 < Len(prices) THEN index + 1
                                        ELSE Len(prices))
             seed == Slice(slice, 1, IF period < Len(slice) THEN period ELSE Len(slice))
         IN  Smooth(FScale(Sum(seed), 1, period), slice, period + 1, period)

\* calculateEMAFromArray: 0, not null, on a short array
calculateEMAFromArray(values, period) ==
    IF Len(values) < period THEN Whole(0)
    ELSE Smooth(FScale(Sum(Slice(values, 1, period)), 1, period), values, period + 1, period)

\* the change of price from day i-1 to day i, zero-based days
Change(prices, i) == FSub(prices[i + 1], prices[i])

\* the first loop of calculateRSI: gains and losses summed over days 1..period
RECURSIVE InitialMoves(_, _, _, _)
InitialMoves(prices, i, period, acc) ==
    IF i > period THEN acc
    ELSE LET change == Change(prices, i)
         IN  InitialMoves(prices, i + 1, period,
                IF FPos(change)
                THEN [gains |-> FAdd(acc.gains, change), losses |-> acc.losses]
                ELSE [gains |-> acc.gains, losses |-> FAdd(acc.losses, FAbs(change))])

\* the second loop of calculateRSI: Wilder smoothing over the remaining days
RECURSIVE SmoothMoves(_, _, _, _)
SmoothMoves(prices, i, period, avg) ==
    IF i >= Len(prices) THEN avg
    ELSE LET change == Change(prices, i)
             keptGain == FScale(avg.gain, period - 1, period)
             keptLoss == FScale(avg.loss, period - 1, period)
         IN  SmoothMoves(prices, i + 1, period,
                IF FPos(change)
                THEN [gain |-> FAdd(keptGain, FScale(change, 1, period)), loss |-> keptLoss]
                ELSE [gain |-> keptGain,
                      loss |-> FAdd(keptLoss, FScale(FAbs(change), 1, period))])

\* the test calculateRSI makes before dividing by the average loss
calculateRSI_M_noLossOrGain(avg) == FZero(avg.loss) \/ FZero(avg.gain)
calculateRSI_noLoss(avg) == FZero(avg.loss)

\* calculateRSI: null on a short series, 100 without losses, else 100 - 100/(1+rs)
calculateRSI(prices, period) ==
    IF Len(prices) < period + 1 THEN Null
    ELSE LET moves == InitialMoves(prices, 1, period, [gains |-> Whole(0), losses |-> Whole(0)])
             avg == SmoothMoves(prices, period + 1, period,
                        [gain |-> FScale(moves.gains, 1, period),
                         loss |-> FScale(moves.losses, 1, period)])
         IN  IF calculateRSI_noLoss(avg) THEN Whole(100)
             ELSE FSub(Whole(100),
                       FDiv(Whole(100), FAdd(Whole(1), FDiv(avg.gain, avg.loss))))

\* a value that may be null or 0 passes `a && b` only when it is a nonzero number
Valid(x) == x # Null /\ ~FZero(x)

\* the test calculateMACDHistory and calculateMACDFull make on the two averages
macd_M_bothDiffer(fastEMA, slowEMA) == Valid(fastEMA) /\ Valid(slowEMA) /\ fastEMA # slowEMA
macd_bothValid(fastEMA, slowEMA) == Valid(fastEMA) /\ Valid(slowEMA)

\* the loop of calculateMACDHistory from zero-based day i on
RECURSIVE MacdLoop(_, _, _, _, _, _, _)
MacdLoop(prices, fastPeriod, slowPeriod, signalPeriod, i, macdLine, entries) ==
    IF i >= Len(prices) THEN [macdLine |-> macdLine, result |-> entries]
    ELSE LET fastEMA == calculateEMAAtIndex(prices, fastPeriod, i)
             slowEMA == calculateEMAAtIndex(prices, slowPeriod, i)
         IN  IF ~macd_bothValid(fastEMA, slowEMA)
             THEN MacdLoop(prices, fastPeriod, slowPeriod, signalPeriod, i + 1,
                           macdLine, entries)
             ELSE LET macd == FSub(fastEMA, slowEMA)
                      line == Append(macdLine, macd)
                      signal == calculateEMAFromArray(line, signalPeriod)
                      entry == IF Len(line) >= signalPeriod
                               THEN [macd |-> toFixed(macd, 4),
                                     signal |-> toFixed(signal, 4),
                                     histogram |-> toFixed(FSub(macd, signal), 4)]
                               ELSE [macd |-> toFixed(macd, 4), signal |-> Whole(0),
                                     histogram |-> toFixed(macd, 4)]
                  IN  MacdLoop(prices, fastPeriod, slowPeriod, signalPeriod, i + 1,
                               line, Append(entries, entry))

\* calculateMACDHistory: empty below slow + signal points
calculateMACDHistory(prices, fastPeriod, slowPeriod, signalPeriod) ==
    IF Len(prices) < slowPeriod + signalPeriod THEN <<>>
    ELSE MacdLoop(prices, fastPeriod, slowPeriod, signalPeriod, slowPeriod - 1,
                  <<>>, <<>>).result

\* calculateMACDFull: the current values, from the unrounded line
calculateMACDFull(prices, fastPeriod, slowPeriod, signalPeriod) ==
    IF Len(prices) < slowPeriod + signalPeriod THEN Null
    ELSE LET macdHistory == MacdLoop(prices, fastPeriod, slowPeriod, signalPeriod,
                                     slowPeriod - 1, <<>>, <<>>).macdLine
         IN  IF Len(macdHistory) < signalPeriod THEN Null
             ELSE LET macdLine == macdHistory[Len(macdHistory)]
                      signalLine == calculateEMAFromArray(macdHistory, signalPeriod)
                  IN  [macd |-> toFixed(macdLine, 4), signal |-> toFixed(signalLine, 4),
                       histogram |-> toFixed(FSub(macdLine, signalLine), 4)]

\* the largest r with r * r <= k, by bisection between lo and hi
RECURSIVE Isqrt(_, _, _)
Isqrt(k, lo, hi) ==
    IF lo >= hi THEN lo
    ELSE LET mid == (lo + hi + 1) \div 2
         IN  IF mid * mid <= k THEN Isqrt(k, mid, hi) ELSE Isqrt(k, lo, mid - 1)

\* Math.sqrt of a non-negative fraction, exact on squares and otherwise cut
\* off after the third decimal of the numerator's root
Sqrt(x) == Frac(Isqrt(x.n * x.d * 1000000, 0, 46340), x.d * 1000)

\* the population variance of the last period prices
Variance(prices, period) ==
    LET sma == calculateSMA(prices, period)
        relevantPrices == Slice(prices, Len(prices) - period + 1, Len(prices))
        diffs == [i \in 1..period |-> FSub(relevantPrices[i], sma)]
        squaredDiffs == [i \in 1..period |->
                            Frac(diffs[i].n * diffs[i].n, diffs[i].d * diffs[i].d)]
    IN  FScale(Sum(squaredDiffs), 1, period)

\* how calculateBollingerBands rounds a band
bollinger_round(x) == toFixed(x, 2)

\* the lower band before rounding
bollinger_M_lowerAtMean(sma, width) == sma
bollinger_lower(sma, width) == FSub(sma, width)

\* calculateBollingerBands: each band rounded on its own
calculateBollingerBands(prices, period, stdDev) ==
    IF Len(prices) < period THEN Null
    ELSE LET sma == calculateSMA(prices, period)
             width == FScale(Sqrt(Variance(prices, period)), stdDev, 1)
         IN  [upper |-> bollinger_round(FAdd(sma, width)),
              middle |-> bollinger_round(sma),
              lower |-> bollinger_round(bollinger_lower(sma, width))]

\* calculateVolatility: the standard deviation of the last period prices
calculateVolatility(prices, period) ==
    IF Len(prices) < period THEN Null ELSE Sqrt(Variance(prices, period))

\* rsi.toFixed(2) on null
SignalTypeError == [by |-> "detectSignals", message |-> "Cannot read properties of null"]

\* `rsi <= 30` and `rsi >= 70`: null compares as 0
RsiAtMost30_M_below(rsi) == IF rsi = Null THEN TRUE ELSE FLess(rsi, Whole(30))
RsiAtMost30(rsi) == IF rsi = Null THEN TRUE ELSE ~FLess(Whole(30), rsi)
RsiAtLeast70(rsi) == IF rsi = Null THEN FALSE ELSE ~FLess(rsi, Whole(70))

\* the two branches on the histogram: beyond 0.3 on either side
MacdSignals(macd) ==
    IF macd = Null THEN <<>>
    ELSE IF FPos(macd.histogram) /\ FLess(Frac(3, 10), FAbs(macd.histogram))
    THEN <<[type |-> "buy", indicator |-> "MACD", strength |-> "medium"]>>
    ELSE IF FNegative(macd.histogram) /\ FLess(Frac(3, 10), FAbs(macd.histogram))
    THEN <<[type |-> "sell", indicator |-> "MACD", strength |-> "medium"]>>
    ELSE <<>>

\* the golden and death cross of the 50 and 200 day means
CrossSignals(prices) ==
    LET ma50 == calculateSMA(prices, 50)
        ma200 == calculateSMA(prices, 200)
    IN  IF ~(Valid(ma50) /\ Valid(ma200)) THEN <<>>
        ELSE LET currentPrice == prices[Len(prices)]
             IN  IF FLess(ma200, ma50) /\ FLess(ma50, currentPrice)
                 THEN <<[type |-> "buy", indicator |-> "Golden Cross", strength |-> "strong"]>>
                 ELSE IF FLess(ma50, ma200) /\ FLess(currentPrice, ma50)
                 THEN <<[type |-> "sell", indicator |-> "Death Cross", strength |-> "strong"]>>
                 ELSE <<>>

\* detectSignals: the RSI branch formats rsi before anything else is looked at
detectSignals(prices, rsi, macd) ==
    IF RsiAtMost30(rsi) /\ rsi = Null THEN Thrown(SignalTypeError)
    ELSE LET rsiSignals ==
                 IF RsiAtMost30(rsi)
                 THEN <<[type |-> "buy", indicator |-> "RSI", strength |-> "strong"]>>
                 ELSE IF RsiAtLeast70(rsi)
                 THEN <<[type |-> "sell", indicator |-> "RSI", strength |-> "strong"]>>
                 ELSE <<>>
         IN  Returned(rsiSignals \o MacdSignals(macd) \o CrossSignals(prices))

\* where a history starts in the series it was computed from
chart_M_startIndexLate(closes, history) == Len(closes) - Len(history) + 1
chart_startIndex(closes, history) == Len(closes) - Len(history)

\* the three histories of a chart, each with its start
chartIndicators(closes, periods) ==
    LET ma50History == calculateSMAHistory(Prices(closes), periods.short)
        ma200History == calculateSMAHistory(Prices(closes), periods.long)
        macdHistory == calculateMACDHistory(Prices(closes), periods.fast, periods.slow,
                                            periods.signal)
    IN  [ma50 |-> [data |-> ma50History, startIndex |-> chart_startIndex(closes, ma50History)],
         ma200 |-> [data |-> ma200History,
                    startIndex |-> chart_startIndex(closes, ma200History)],
         macd |-> [data |-> macdHistory, startIndex |-> chart_startIndex(closes, macdHistory)]]

NoPriceData == [by |-> "stockService", cause |-> "No price data available"]

\* getChartData: the histories beside the candles, rethrowing on an empty series
getChartData(closes, periods) ==
    IF Len(closes) = 0 THEN Thrown(NoPriceData)
    ELSE Returned([close |-> closes, indicators |-> chartIndicators(closes, periods)])

\* one row of the candles route, index zero-based
chartRow(closes, indicators, index) ==
    LET ma50Index == index - indicators.ma50.startIndex
        ma200Index == index - indicators.ma200.startIndex
        macdIndex == index - indicators.macd.startIndex
    IN  [close |-> toFixed(Whole(closes[index + 1]), 2),
         ma50 |-> IF ma50Index >= 0 THEN indicators.ma50.data[ma50Index + 1] ELSE Null,
         ma200 |-> IF ma200Index >= 0 THEN indicators.ma200.data[ma200Index + 1] ELSE Null,
         macd |-> IF macdIndex >= 0 THEN indicators.macd.data[macdIndex + 1].macd ELSE Null,
         signal |-> IF macdIndex >= 0 THEN indicators.macd.data[macdIndex + 1].signal
                    ELSE Null,
         histogram |-> IF macdIndex >= 0 THEN indicators.macd.data[macdIndex + 1].histogram
                       ELSE Null]

\* GET /stocks/candles/:symbol on a fetched series: refused below the long
\* mean's period, else one row per day
candlesRoute(closes, periods) ==
    IF Len(closes) < periods.long THEN [success |-> FALSE, data |-> <<>>]
    ELSE LET indicators == chartIndicators(closes, periods)
         IN  [success |-> TRUE,
              data |-> [i \in 1..Len(closes) |-> chartRow(closes, indicators, i - 1)]]

(***************************************************************************)
(* Indicator set handed to the routes                                      *)
(***************************************************************************)
\* the all-unknown set getTechnicalIndicators returns from its catch block
DegradedIndicators(error) ==
    [rsi |-> Null, ma50 |-> Null, ma200 |-> Null, trend |-> Str("unknown"),
     volatility |-> Null, currentPrice |-> Null,
     macd |-> Null, bollingerBands |-> Null, signals |-> Arr(<<>>),
     dataPoints |-> Num(0), error |-> error]

InsufficientData == [by |-> "stockService", cause |-> "Insufficient data: need 200+ days"]

getTrend(currentPrice, ma50, ma200) ==
    IF currentPrice > ma50 /\ ma50 > ma200 THEN Str("uptrend")
    ELSE IF currentPrice < ma50 /\ ma50 < ma200 THEN Str("downtrend")
    ELSE Str("consolidating")

\* readings the indicator engine produces on a sufficient close series
IndicatorReadings ==
    {[rsi |-> Num(25), ma50 |-> Num(110), ma200 |-> Num(100), volatility |-> Num(2),
      signals |-> Arr(<<"RSI_OVERSOLD">>),
      macd |-> [macd |-> 2, signal |-> 1, histogram |-> 1],
      bollingerBands |-> [upper |-> 120, middle |-> 105, lower |-> 90]],
     [rsi |-> Num(75), ma50 |-> Num(90), ma200 |-> Num(100), volatility |-> Num(3),
      signals |-> Arr(<<"RSI_OVERBOUGHT">>),
      macd |-> [macd |-> -2, signal |-> -1, histogram |-> -1],
      bollingerBands |-> [upper |-> 98, middle |-> 90, lower |-> 82]]}

\* the try block of getTechnicalIndicators: candles, the length check, then the
\* engine's readings
indicatorsTry(symbol, resp, reading) ==
    LET c == getCandles(symbol, 365, resp).out
    IN  IF c.threw THEN c
        ELSE IF Len(c.value.close) < MinHistory THEN Thrown(InsufficientData)
        ELSE Returned(
             [rsi |-> reading.rsi, ma50 |-> reading.ma50, ma200 |-> reading.ma200,
              trend |-> getTrend(c.value.close[Len(c.value.close)],
                                 reading.ma50.v, reading.ma200.v),
              volatility |-> reading.volatility,
              currentPrice |-> Num(c.value.close[Len(c.value.close)]),
              macd |-> reading.macd, bollingerBands |-> reading.bollingerBands,
              signals |-> reading.signals,
              dataPoints |-> Num(Len(c.value.close))])

\* what the catch block of getTechnicalIndicators does with an error
getTechnicalIndicators_M_rethrow(error) == Thrown(error)
getTechnicalIndicators_caught(error) == Returned(DegradedIndicators(error))

\* StockService.getTechnicalIndicators: the calls it makes and its completion
getTechnicalIndicators(symbol, resp, reading) ==
    LET t == indicatorsTry(symbol, resp, reading)
    IN  [calls |-> getCandles(symbol, 365, resp).calls,
         out |-> IF t.threw THEN getTechnicalIndicators_caught(t.error) ELSE t]

(***************************************************************************)
(* Signal tallies and base confidence                                      *)
(***************************************************************************)
\* the price the scorer compares against: quote?.currentPrice || 0
ScoredPrice(quote) ==
    LET p == Or(Get(quote, "currentPrice"), Num(0)) IN IF IsNum(p) THEN p.v ELSE 0

\* the four per-indicator entries: label, tally contribution, and the
\* strength score in hundredths of a point
macdSignal(technical) ==
    IF technical.macd = Null THEN [text |-> "N/A", score |-> 0, bull |-> 0, bear |-> 0]
    ELSE IF technical.macd.macd > technical.macd.signal /\ technical.macd.histogram > 0
    THEN [text |-> "golden-cross",
          score |-> IF technical.macd.histogram * 50 < 250
                    THEN technical.macd.histogram * 50 ELSE 250,
          bull |-> 8, bear |-> 0]
    ELSE IF technical.macd.macd < technical.macd.signal /\ technical.macd.histogram < 0
    THEN [text |-> "death-cross",
          score |-> IF 250 + technical.macd.histogram * 50 > 50
                    THEN 250 + technical.macd.histogram * 50 ELSE 50,
          bull |-> 0, bear |-> 8]
    ELSE [text |-> "neutral", score |-> 150, bull |-> 0, bear |-> 0]

rsiSignal(technical) ==
    IF ~Truthy(technical.rsi) THEN [text |-> "N/A", score |-> 0, bull |-> 0, bear |-> 0]
    ELSE IF technical.rsi.v > 70
    THEN [text |-> "overbought", score |-> 50 + (80 - technical.rsi.v) * 10,
          bull |-> 0, bear |-> 7]
    ELSE IF technical.rsi.v < 30
    THEN [text |-> "oversold", score |-> 250, bull |-> 7, bear |-> 0]
    ELSE IF technical.rsi.v >= 50
    THEN [text |-> "normal", score |-> 150 + (technical.rsi.v - 50) * 5,
          bull |-> 3, bear |-> 0]
    ELSE [text |-> "weak", score |-> 100 + technical.rsi.v * 2, bull |-> 0, bear |-> 0]

maSignal(technical, quote) ==
    LET currentPrice == ScoredPrice(quote) IN
    IF ~(Truthy(technical.ma50) /\ Truthy(technical.ma200))
    THEN [text |-> "N/A", score |-> 0, bull |-> 0, bear |-> 0]
    ELSE IF technical.ma50.v > technical.ma200.v
    THEN [text |-> "golden-cross",
          score |-> IF currentPrice > technical.ma50.v /\ currentPrice > technical.ma200.v
                    THEN 250
                    ELSE IF currentPrice > technical.ma50.v THEN 180 ELSE 120,
          bull |-> 8, bear |-> 0]
    ELSE [text |-> "death-cross",
          score |-> IF currentPrice < technical.ma50.v /\ currentPrice < technical.ma200.v
                    THEN 50
                    ELSE IF currentPrice > technical.ma200.v THEN 150 ELSE 100,
          bull |-> 0, bear |-> 8]

bollingerSignal(technical, quote) ==
    IF technical.bollingerBands = Null
    THEN [text |-> "N/A", score |-> 0, bull |-> 0, bear |-> 0]
    ELSE IF ScoredPrice(quote) > technical.bollingerBands.upper
    THEN [text |-> "above-upper", score |-> 80, bull |-> 0, bear |-> 5]
    ELSE IF ScoredPrice(quote) < technical.bollingerBands.lower
    THEN [text |-> "below-lower", score |-> 250, bull |-> 7, bear |-> 0]
    ELSE IF ScoredPrice(quote) > technical.bollingerBands.middle
    THEN [text |-> "upper-half", score |-> 150, bull |-> 0, bear |-> 0]
    ELSE [text |-> "lower-half", score |-> 120, bull |-> 0, bear |-> 0]

overallBias(bullishScore, bearishScore) ==
    IF bullishScore + bearishScore = 0 THEN "N/A"
    ELSE IF bullishScore * 100 > 60 * (bullishScore + bearishScore) THEN "bullish"
    ELSE IF bullishScore * 100 < 40 * (bullishScore + bearishScore) THEN "bearish"
    ELSE "neutral"

\* calculateTechnicalSignals: per-indicator label and the two tallies
calculateTechnicalSignals(technical, quote) ==
    LET m == macdSignal(technical)
        r == rsiSignal(technical)
        a == maSignal(technical, quote)
        b == bollingerSignal(technical, quote)
        bull == m.bull + r.bull + a.bull + b.bull
        bear == m.bear + r.bear + a.bear + b.bear
    IN  [macd |-> [text |-> m.text, score |-> m.score],
         rsi |-> [text |-> r.text, score |-> r.score],
         ma |-> [text |-> a.text, score |-> a.score],
         bollinger |-> [text |-> b.text, score |-> b.score],
         overall |-> overallBias(bull, bear),
         bullishScore |-> bull, bearishScore |-> bear]

\* pnlPercent > k and pnlPercent < k for pnlPercent = (cur - buy) / buy * 100;
\* 0/0 is NaN and compares false either way
PnlAbove(cur, buy, k) == buy > 0 /\ (cur - buy) * 100 > k * buy
PnlBelow(cur, buy, k) == buy > 0 /\ (cur - buy) * 100 < k * buy

\* Math.floor(Math.random() * 7) - 3: the extremes
Jitter == {-3, 3}

\* Math.max(lo, Math.min(hi, x))
Clamp_M_none(lo, hi, x) == x
Clamp(lo, hi, x) == IF x < lo THEN lo ELSE IF x > hi THEN hi ELSE x

calculateBaseConfidence(signals, technical, cur, buy, jitter) ==
    LET total == signals.bullishScore + signals.bearishScore
        b100 == signals.bullishScore * 100
        share == IF total = 0 THEN 0
                 ELSE IF b100 > 70 * total THEN 25
                 ELSE IF b100 > 55 * total THEN 15
                 ELSE IF b100 < 30 * total THEN -25
                 ELSE IF b100 < 45 * total THEN -15
                 ELSE 0
        rsi == IF ~Truthy(technical.rsi) THEN 0
               ELSE IF technical.rsi.v > 70 THEN -8
               ELSE IF technical.rsi.v < 30 THEN 8
               ELSE IF technical.rsi.v >= 45 /\ technical.rsi.v <= 55 THEN 5
               ELSE 0
        pnl == IF PnlAbove(cur, buy, 20) THEN 10
               ELSE IF PnlAbove(cur, buy, 10) THEN 5
               ELSE IF PnlBelow(cur, buy, -20) THEN -15
               ELSE IF PnlBelow(cur, buy, -10) THEN -8
               ELSE 0
        macd == IF signals.macd.text = "golden-cross" THEN 6
                ELSE IF signals.macd.text = "death-cross" THEN -6 ELSE 0
        ma == IF signals.ma.text = "golden-cross" THEN 5
              ELSE IF signals.ma.text = "death-cross" THEN -5 ELSE 0
    IN  Clamp(15, 95, 50 + share + rsi + pnl + macd + ma + jitter)

(***************************************************************************)
(* Price levels                                                            *)
(*                                                                         *)
(* Prices are whole cents; products with the percentage factors of the     *)
(* source are kept in hundredths of a cent, where they are exact.          *)
(***************************************************************************)
Max(a, b) == IF a >= b THEN a ELSE b
Min(a, b) == IF a <= b THEN a ELSE b

\* technical.rsi > k and technical.rsi < k on a reading that may be null,
\* which compares as 0
RsiAbove(rsi, k) == IF IsNum(rsi) THEN rsi.v > k ELSE 0 > k
RsiBelow(rsi, k) == IF IsNum(rsi) THEN rsi.v < k ELSE 0 < k

\* parseFloat(x.toFixed(2)): hundredths of a cent to the nearest cent; a value
\* halfway between two cents goes where its binary representation falls
toFixed2(x, tieUp) ==
    LET a == IF x < 0 THEN -x ELSE x
        r == IF a % 100 = 50 THEN (a \div 100) + (IF tieUp THEN 1 ELSE 0)
             ELSE (a + 50) \div 100
    IN  IF x < 0 THEN -r ELSE r

\* the closing clamps of calculateSmartPrices on the stop-loss and add-more levels
smartPrices_M_noClamp(level, currentPrice, pct) == level
smartPrices_clamp(level, currentPrice, pct) == Min(level, currentPrice * pct)

\* calculateSmartPrices: the three levels, in cents, after rounding
calculateSmartPrices(currentPrice, buyPrice, technical, signals, tieUp) ==
    LET cur == currentPrice
        buy == buyPrice
        isProfit == PnlAbove(cur, buy, 0)
        bullish == signals.overall = "bullish"
        stop0 == IF isProfit
                 THEN IF PnlAbove(cur, buy, 20) THEN Max(buy * 110, cur * 90)
                      ELSE IF PnlAbove(cur, buy, 10) THEN Max(buy * 105, cur * 92)
                      ELSE Max(buy * 100, cur * 93)
                 ELSE IF PnlBelow(cur, buy, -20) THEN cur * 90
                      ELSE IF PnlBelow(cur, buy, -10) THEN cur * 88
                      ELSE Min(buy * 90, cur * 88)
        add0 == IF isProfit
                THEN IF RsiAbove(technical.rsi, 70) THEN cur * 93 ELSE cur * 95
                ELSE IF PnlBelow(cur, buy, -30) THEN cur * 98
                     ELSE IF PnlBelow(cur, buy, -20) THEN cur * 95
                     ELSE cur * 92
        lossTarget == IF PnlBelow(cur, buy, -30) THEN buy * 100
                      ELSE IF PnlBelow(cur, buy, -20) THEN buy * 105
                      ELSE Max(buy * 105, cur * 110)
        target0 == IF isProfit THEN IF bullish THEN cur * 115 ELSE cur * 108
                   ELSE IF bullish /\ RsiBelow(technical.rsi, 50)
                        THEN Max(lossTarget, buy * 110)
                        ELSE lossTarget
        underMa50 == Truthy(technical.ma50) /\ cur < technical.ma50.v
        add1 == IF underMa50 /\ add0 > technical.ma50.v * 100
                THEN technical.ma50.v * 98 ELSE add0
        target1 == IF underMa50 /\ target0 < technical.ma50.v * 105
                   THEN Max(target0, technical.ma50.v * 105) ELSE target0
        stop1 == IF Truthy(technical.ma200) /\ cur < technical.ma200.v
                    /\ stop0 < technical.ma200.v * 95
                 THEN Max(stop0, technical.ma200.v * 95) ELSE stop0
        bb == technical.bollingerBands
        add2 == IF bb # Null /\ bb.lower # 0 /\ cur * 100 < bb.lower * 105
                THEN Min(add1, bb.lower * 102) ELSE add1
        target2 == IF bb # Null /\ bb.upper # 0 /\ target1 < bb.upper * 100
                   THEN Max(target1, bb.upper * 98) ELSE target1
        stopLoss == smartPrices_clamp(stop1, cur, 95)
        addMorePrice == smartPrices_clamp(add2, cur, 98)
        targetPrice == IF ~isProfit \/ PnlBelow(cur, buy, 50)
                       THEN Max(target2, cur * 102) ELSE target2
    IN  [stopLoss |-> toFixed2(stopLoss, tieUp),
         addMorePrice |-> toFixed2(addMorePrice, tieUp),
         targetPrice |-> toFixed2(targetPrice, tieUp)]

(***************************************************************************)
(* Holding advice                                                          *)
(***************************************************************************)
\* replies of the text-generation service to one chatCompletion call: the call
\* fails, or it answers with prose, with braces that are not JSON, or with a
\* JSON recommendation whose fields may be absent or off the scale it was
\* asked to use
ModelFailure == [kind |-> "failed"]

ModelAnswers ==
    {[kind |-> "prose"], [kind |-> "badjson"]}
    \cup {[kind |-> "json", action |-> Undef, confidence |-> c] : c \in {Undef, Num(0)}}
    \cup {[kind |-> "json", action |-> Str("SELL"), confidence |-> c] :
            c \in {Num(72), Num(100)}}
    \cup {[kind |-> "json", action |-> Str("STRONG_BUY"), confidence |-> Num(150)]}

\* the loop over the two models: the second is tried only when the first failed
ModelRuns ==
    {<<r>> : r \in ModelAnswers}
    \cup {<<ModelFailure, r>> : r \in ModelAnswers \cup {ModelFailure}}

ModelAttempts == 2

\* the response the loop leaves behind, or the last model's error
callModels(run) ==
    IF run[Len(run)].kind = "failed" /\ Len(run) = ModelAttempts
    THEN Thrown([by |-> "model", message |-> "all models failed"])
    ELSE Returned(run[Len(run)])

RoundConfidences == {0, 25, 50, 75, 100}

\* Math.floor(Math.random() * 8) + 1, signed by a second draw: the extremes
Deltas == {-8, 8}

\* a reply's confidence, perturbed when it is one of the round numbers
finalConfidence(confidence, baseConfidence, delta) ==
    LET c == Or(confidence, Num(baseConfidence))
    IN  IF IsNum(c) /\ c.v \in RoundConfidences THEN Num(Clamp(0, 100, c.v + delta)) ELSE c

ToFixedError == [by |-> "generateHoldingAdvice", message |-> "Cannot read properties of undefined"]

\* generateHoldingAdvice: the price arithmetic runs before its try block, the
\* model loop and the parsing inside it
generateHoldingAdvice(holding, quote, technical, signals, run, jitter, delta, tieUp) ==
    LET currentPrice == quote.currentPrice
        buyPrice == Or(Or(Get(holding, "buy_price"), Get(holding, "buyPrice")), currentPrice)
    IN  IF ~IsNum(buyPrice) \/ ~IsNum(currentPrice) THEN Thrown(ToFixedError)
        ELSE
        LET baseConfidence ==
                calculateBaseConfidence(signals, technical, currentPrice.v, buyPrice.v, jitter)
            prices == calculateSmartPrices(currentPrice.v, buyPrice.v, technical, signals,
                                           tieUp)
            rulesOnly == [symbol |-> holding.symbol, action |-> Str("HOLD"),
                          confidence |-> Num(baseConfidence),
                          targetPrice |-> Num(prices.targetPrice),
                          stopLoss |-> Num(prices.stopLoss),
                          addMorePrice |-> Num(prices.addMorePrice),
                          technicalSignals |-> signals]
            response == callModels(run)
        IN  IF response.threw \/ response.value.kind = "badjson" THEN Returned(rulesOnly)
            ELSE IF response.value.kind = "prose" THEN Returned(rulesOnly)
            ELSE Returned([symbol |-> holding.symbol,
                           action |-> Or(response.value.action, Str("HOLD")),
                           confidence |-> finalConfidence(response.value.confidence,
                                                          baseConfidence, delta),
                           targetPrice |-> Or(Get(response.value, "targetPrice"),
                                              Num(prices.targetPrice)),
                           stopLoss |-> Or(Get(response.value, "stopLoss"),
                                           Num(prices.stopLoss)),
                           addMorePrice |-> Or(Get(response.value, "addMorePrice"),
                                               Num(prices.addMorePrice)),
                           technicalSignals |-> signals])

NoSignals ==
    [macd |-> [text |-> "N/A", score |-> 0], rsi |-> [text |-> "N/A", score |-> 0],
     ma |-> [text |-> "N/A", score |-> 0], bollinger |-> [text |-> "N/A", score |-> 0],
     overall |-> "N/A"]

\* the record the holdings route pushes from its per-holding catch block
\* prices in cents, as calculateSmartPrices has them
degradedAdvice(holding) ==
    LET price == Or(Get(holding, "current_price"), Num(0)).v
    IN  [symbol |-> holding.symbol, action |-> Str("HOLD"), confidence |-> Num(0),
         targetPrice |-> Num(price * 100), stopLoss |-> Num(price * 95),
         addMorePrice |-> Num(price * 95), technicalSignals |-> NoSignals]

\* what the per-holding catch block of the holdings route does with an error
holdings_M_rethrow(holding, error) == Thrown(error)
holdings_onError(holding, error) == Returned(degradedAdvice(holding))

\* the try block of one iteration of the holdings loop: the awaited fetches,
\* the signal tallies and the advice; the news fetch carries its own catch and
\* feeds only the prompt text, to which the reply is not bound
holdingStep(holding, quote, technical, run, jitter, delta, tieUp) ==
    IF quote.threw THEN quote
    ELSE IF technical.threw THEN technical
    ELSE generateHoldingAdvice(holding, quote.value, technical.value,
             calculateTechnicalSignals(technical.value, quote.value), run, jitter, delta,
             tieUp)

\* one iteration of the holdings loop: the try block and its catch block
analyzeHolding(holding, quote, technical, run, jitter, delta, tieUp) ==
    LET step == holdingStep(holding, quote, technical, run, jitter, delta, tieUp)
    IN  IF step.threw THEN holdings_onError(holding, step.error) ELSE step

CountAction(adv, action) == Cardinality({i \in DOMAIN adv : adv[i].action = Str(action)})

generatePortfolioSummary(hs, adv) ==
    [totalHoldings |-> Len(hs),
     needAction |-> CountAction(adv, "BUY_MORE") + CountAction(adv, "REDUCE")
                    + CountAction(adv, "SELL"),
     highRisk |-> CountAction(adv, "SELL"),
     opportunities |-> CountAction(adv, "BUY_MORE")]

(***************************************************************************)
(* State machine                                                           *)
(***************************************************************************)
NoResult == [threw |-> FALSE, value |-> Undef, pending |-> TRUE]

Init ==
    /\ pc = "idle"
    /\ op = "none"
    /\ args = [symbol |-> "AAPL"]
    /\ calls = <<>>
    /\ result = NoResult
    /\ holdings = <<>>
    /\ advice = <<>>
    /\ enriched = <<>>

Finish(o, a, r) ==
    /\ pc' = "done"
    /\ op' = o
    /\ args' = a
    /\ calls' = r.calls
    /\ result' = r.out
    /\ UNCHANGED <<holdings, advice, enriched>>

GetQuote ==
    /\ pc = "idle"
    /\ \E s \in Symbols :
         \E yResp \in YahooQuoteResponses(s), fResp \in FinnhubQuoteResponses :
            Finish("getQuote", [symbol |-> s], getQuote(s, yResp, fResp))

GetProfile ==
    /\ pc = "idle"
    /\ \E s \in Symbols, up \in YahooProfileUpstreams, fResp \in FinnhubProfileResponses :
            Finish("getProfile", [symbol |-> s], getProfile(s, up.qs, up.chart, fResp))

GetNews ==
    /\ pc = "idle"
    /\ \E s \in Symbols, limit \in Limits, yResp \in YahooNewsResponses,
          fResp \in FinnhubNewsResponses :
            Finish("getNews", [symbol |-> s, limit |-> limit], getNews(s, limit, yResp, fResp))

SearchSymbol ==
    /\ pc = "idle"
    /\ \E q \in Queries, yResp \in YahooSearchResponses, fResp \in FinnhubSearchResponses :
            Finish("searchSymbol", [query |-> q], searchSymbol(q, yResp, fResp))

GetCandles ==
    /\ pc = "idle"
    /\ \E s \in Symbols, d \in DaysBack, resp \in YahooHistoryResponses :
            Finish("getCandles", [symbol |-> s, daysBack |-> d], getCandles(s, d, resp))

GetTechnicalIndicators ==
    /\ pc = "idle"
    /\ \E s \in Symbols, resp \in YahooHistoryResponses, reading \in IndicatorReadings :
            Finish("getTechnicalIndicators", [symbol |-> s],
                   getTechnicalIndicators(s, resp, reading))

(***************************************************************************)
(* Batch routes                                                            *)
(***************************************************************************)
MaxHoldings == 2

\* the holdings a client or the store supplies, by position: stored rows carry
\* a buy price, a hand-entered one may not
HoldingAt(i) ==
    IF i % 2 = 1
    THEN [symbol |-> Str("AAPL"), quantity |-> Num(10), buy_price |-> Num(80),
          current_price |-> Num(100)]
    ELSE [symbol |-> Str("TSLA"), quantity |-> Num(5), buy_price |-> Undef,
          current_price |-> Undef]

HoldingLists == {[i \in 1..n |-> HoldingAt(i)] : n \in 0..MaxHoldings}

\* req.body.holdings of POST /analysis/holdings
HoldingsBodies == {Undef} \cup {Arr(l) : l \in HoldingLists}

\* what stockService.getQuote can complete with for a symbol
QuoteOutcomes ==
    [s \in Symbols |->
        {getQuote(s, yResp, fResp).out :
            yResp \in YahooQuoteResponses(s), fResp \in FinnhubQuoteResponses}]

\* what stockService.getTechnicalIndicators can return for a symbol
IndicatorOutcomes ==
    [s \in Symbols |->
        {getTechnicalIndicators(s, resp, reading).out :
            resp \in YahooHistoryResponses, reading \in IndicatorReadings}]

Respond(status, body) == [status |-> status, body |-> body]

\* POST /analysis/holdings up to its loop: a missing or empty list is refused
PostHoldings ==
    /\ pc = "idle"
    /\ \E body \in HoldingsBodies :
        /\ op' = "postHoldings"
        /\ args' = [holdings |-> body]
        /\ calls' = <<>>
        /\ advice' = <<>>
        /\ UNCHANGED enriched
        /\ IF ~Truthy(body) \/ Len(body.v) = 0
           THEN /\ pc' = "done"
                /\ holdings' = <<>>
                /\ result' = Respond(400, [success |-> FALSE, error |-> "holdings required"])
           ELSE /\ pc' = "analyzing"
                /\ holdings' = body.v
                /\ result' = NoResult

\* how one iteration of the loop can go for a holding: which fetches and
\* model calls failed, whether its try block raised, what the iteration left
HoldingRuns(h) ==
    {[symbol |-> h.symbol, quoteFailed |-> quote.threw,
      indicatorsFailed |-> technical.threw \/ "error" \in DOMAIN technical.value,
      modelFailed |-> callModels(run).threw,
      raised |-> holdingStep(h, quote, technical, run, jitter, delta, tieUp).threw,
      out |-> analyzeHolding(h, quote, technical, run, jitter, delta, tieUp)] :
        quote \in QuoteOutcomes[h.symbol.v], technical \in IndicatorOutcomes[h.symbol.v],
        run \in ModelRuns, jitter \in Jitter, delta \in Deltas, tieUp \in BOOLEAN}

HoldingKinds == {HoldingAt(i) : i \in 1..2}

IterationOutcomes == [h \in HoldingKinds |-> HoldingRuns(h)]

\* the loop reaches its next holding and issues that holding's three fetches
\* in one Promise.all; the loop body awaits them before it goes on
FetchHolding ==
    /\ pc = "analyzing"
    /\ op = "postHoldings"
    /\ Len(advice) < Len(holdings)
    /\ pc' = "fetching"
    /\ UNCHANGED <<op, args, calls, result, holdings, advice, enriched>>

\* the holdings whose fetches the loop has issued so far
IssuedHoldings == IF pc = "fetching" THEN Len(advice) + 1 ELSE Len(advice)

\* the rest of one iteration of the loop of POST /analysis/holdings; the last iteration
\* runs on into the summary and the response, an error escaping the
\* iteration into the route's outer catch block
AnalyzeHolding ==
    /\ pc = "fetching"
    /\ op = "postHoldings"
    /\ Len(advice) < Len(holdings)
    /\ \E run \in IterationOutcomes[holdings[Len(advice) + 1]] :
        /\ calls' = Append(calls, [f \in DOMAIN run \ {"out"} |-> run[f]])
        /\ UNCHANGED <<op, args, holdings, enriched>>
        /\ IF run.out.threw
           THEN /\ advice' = advice
                /\ pc' = "done"
                /\ result' = Respond(500, [success |-> FALSE, error |-> run.out.error])
           ELSE /\ advice' = Append(advice, run.out.value)
                /\ IF Len(advice') < Len(holdings)
                   THEN /\ pc' = "analyzing"
                        /\ UNCHANGED result
                   ELSE /\ pc' = "done"
                        /\ result' = Respond(200,
                             [success |-> TRUE, advice |-> advice',
                              summary |-> generatePortfolioSummary(holdings, advice')])

\* the models AIAnalysisService knows, in preference order
models ==
    <<"meta-llama/Meta-Llama-3-8B-Instruct", "mistralai/Mistral-7B-Instruct-v0.2",
      "microsoft/Phi-3-mini-4k-instruct">>

currentModel == models[1]

\* what each model of the list would do if it were called
NarrativeRuns == [DOMAIN models -> {"text", "failed"}]

\* callModelConversational: the model's text, or its error rethrown
callModelConversational(modelId, run) ==
    LET k == CHOOSE i \in DOMAIN models : models[i] = modelId
    IN  IF run[k] = "text" THEN Returned(Str("text"))
        ELSE Thrown([by |-> modelId, message |-> "No response from model"])

\* the nested try blocks shared by analyzeSingleStock and analyzePortfolio:
\* the current model, then models[1] of the zero-based list
callNarrativeModels(run) ==
    LET first == callModelConversational(currentModel, run)
        backup == callModelConversational(models[2], run)
        firstCall == Call("huggingface", currentModel, ~first.threw, first)
        backupCall == Call("huggingface", models[2], ~backup.threw, backup)
    IN  IF ~first.threw
        THEN [calls |-> <<firstCall>>,
              out |-> Returned([analysis |-> first.value, model |-> currentModel])]
        ELSE [calls |-> <<firstCall, backupCall>>,
              out |-> IF ~backup.threw
                      THEN Returned([analysis |-> backup.value, model |-> models[2]])
                      ELSE backup]

\* (current_price - buy_price) / buy_price * 100 is NaN
PnlIsNaN(h) == ~IsNum(h.current_price) \/ ~IsNum(h.buy_price)

StaticFallbackError == [by |-> "aiAnalysisService", message |-> "Cannot read properties of null"]

\* the template analysis: its best-stock reduction starts from null and keeps
\* it when no holding has a comparable profit, and the next line reads it
getStaticPortfolioAnalysis(hs) ==
    IF \A i \in DOMAIN hs : PnlIsNaN(hs[i]) THEN Thrown(StaticFallbackError)
    ELSE Returned("static analysis")

\* AIAnalysisService.analyzePortfolio: the models, then the template, which
\* runs inside the catch block
analyzePortfolio(hs, run) ==
    LET m == callNarrativeModels(run)
        static == getStaticPortfolioAnalysis(hs)
    IN  [calls |-> m.calls,
         out |-> IF ~m.out.threw THEN m.out
                 ELSE IF static.threw THEN static
                 ELSE Returned([analysis |-> Str(static.value), model |-> "static-fallback"])]

\* AIAnalysisService.analyzeSingleStock: the models, then the single-stock
\* template, whose arithmetic on the quote cannot fail
analyzeSingleStock(symbol, run) ==
    LET m == callNarrativeModels(run)
    IN  [calls |-> m.calls,
         out |-> IF ~m.out.threw THEN m.out
                 ELSE Returned([analysis |-> Str("static analysis"),
                                model |-> "static-fallback"])]

\* the rows the store holds for a portfolio id: none, or a portfolio with its
\* holdings (null when the query failed)
StoreStates ==
    {[portfolio |-> Null, rows |-> Null]}
    \cup {[portfolio |-> [id |-> "p1", name |-> "Growth"], rows |-> r] :
            r \in {Null} \cup {Arr(l) : l \in HoldingLists}}

UserIds == {Undef, Str("u1")}

\* POST /analysis/portfolio/:portfolioId up to its fan-out
PostPortfolio ==
    /\ pc = "idle"
    /\ \E store \in StoreStates, userId \in UserIds :
        /\ op' = "postPortfolio"
        /\ args' = [portfolioId |-> "p1", userId |-> userId]
        /\ calls' = <<>>
        /\ advice' = <<>>
        /\ enriched' = <<>>
        /\ IF store.portfolio = Null
           THEN /\ pc' = "done"
                /\ holdings' = <<>>
                /\ result' = Respond(404, [success |-> FALSE, error |-> "portfolio not found"])
           ELSE IF ~Truthy(store.rows) \/ Len(store.rows.v) = 0
           THEN /\ pc' = "done"
                /\ holdings' = <<>>
                /\ result' = Respond(400, [success |-> FALSE, error |-> "no holdings"])
           ELSE /\ pc' = "fanout"
                /\ holdings' = store.rows.v
                /\ result' = NoResult

\* the callback of the fan-out for one holding: the quote and the indicators
\* are awaited together and nothing catches the quote's error
enrichHolding(holding, quote, technical) ==
    IF quote.threw THEN quote
    ELSE IF technical.threw THEN technical
    ELSE Returned([symbol |-> holding.symbol, quantity |-> holding.quantity,
                   buy_price |-> holding.buy_price,
                   current_price |-> quote.value.currentPrice,
                   change |-> quote.value.change,
                   rsi |-> technical.value.rsi, trend |-> technical.value.trend])

EnrichOutcomes ==
    [h \in HoldingKinds |->
        {enrichHolding(h, quote, technical) :
            quote \in QuoteOutcomes[h.symbol.v], technical \in IndicatorOutcomes[h.symbol.v]}]

\* what the route does once every callback has returned: the analysis, the
\* history row when the request names a user, and the response
portfolioResponse(hs, run, userId) ==
    LET a == analyzePortfolio(hs, run).out
    IN  IF a.threw THEN Respond(500, [success |-> FALSE, error |-> a.error])
        ELSE [status |-> 200, body |-> [success |-> TRUE, data |-> a.value],
              stored |-> Truthy(userId)]

\* one callback of the fan-out settles, in any order; the first rejection
\* rejects Promise.all and lands in the route's catch block, the last
\* fulfilment runs on into the analysis and the response
PortfolioSettle ==
    /\ pc = "fanout"
    /\ op = "postPortfolio"
    /\ \E i \in DOMAIN holdings \ DOMAIN enriched :
        \E out \in EnrichOutcomes[holdings[i]], run \in NarrativeRuns :
            /\ calls' = Append(calls, [holding |-> i, symbol |-> holdings[i].symbol,
                                       quoteFailed |-> out.threw])
            /\ UNCHANGED <<op, args, holdings, advice>>
            /\ IF out.threw
               THEN /\ enriched' = enriched
                    /\ pc' = "done"
                    /\ result' = Respond(500, [success |-> FALSE, error |-> out.error])
               ELSE /\ enriched' = [j \in DOMAIN enriched \cup {i} |->
                                       IF j = i THEN out.value ELSE enriched[j]]
                    /\ IF DOMAIN enriched' # DOMAIN holdings
                       THEN UNCHANGED <<pc, result>>
                       ELSE /\ pc' = "done"
                            /\ result' = portfolioResponse(enriched', run, args.userId)

\* enriched holdings handed to analyzePortfolio: one with a price, one without
EnrichedSamples ==
    {<<[symbol |-> Str("AAPL"), quantity |-> Num(10), buy_price |-> Num(80),
        current_price |-> p, change |-> Num(5), rsi |-> Null, trend |-> Str("unknown")]>> :
        p \in {Num(100), Undef}}

AnalyzePortfolio ==
    /\ pc = "idle"
    /\ \E hs \in EnrichedSamples, run \in NarrativeRuns :
            Finish("analyzePortfolio", [holdings |-> hs], analyzePortfolio(hs, run))

AnalyzeSingleStock ==
    /\ pc = "idle"
    /\ \E s \in Symbols, run \in NarrativeRuns :
            Finish("analyzeSingleStock", [symbol |-> s], analyzeSingleStock(s, run))

(***************************************************************************)
(* GET /stocks/:symbol                                                     *)
(***************************************************************************)
\* the runs of stockService.getQuote for a symbol, calls included
QuoteRuns ==
    [s \in Symbols |->
        {getQuote(s, yResp, fResp) :
            yResp \in YahooQuoteResponses(s), fResp \in FinnhubQuoteResponses}]

\* runs of stockService.getProfile: every request failed, the primary
\* complete, the primary bare with the secondary failing or complete
ProfileRuns ==
    [s \in Symbols |->
        {[failed |-> ~up.qs.ok /\ ~up.chart.ok /\ ~fResp.ok,
          out |-> getProfile(s, up.qs, up.chart, fResp).out] :
            up \in {u \in YahooProfileUpstreams :
                      \/ ~u.qs.ok /\ ~u.chart.ok
                      \/ u.qs.ok /\ \A f \in {"shortName", "currency", "marketCap"} :
                                        u.qs.price[f] = Undef
                      \/ u.qs.ok /\ \A f \in {"shortName", "currency", "marketCap"} :
                                        u.qs.price[f] # Undef},
            fResp \in {r \in FinnhubProfileResponses :
                         ~r.ok \/ \A f \in DOMAIN r.data : Truthy(r.data[f])}}]

\* which of the three awaited completions reject the route's Promise.all
stocks_M_rejectsDegraded(quote, profile, technical) ==
    quote.threw \/ profile.threw \/ technical.threw \/ "error" \in DOMAIN technical.value
stocks_rejected(quote, profile, technical) ==
    quote.threw \/ profile.threw \/ technical.threw

\* router.get('/:symbol'): the three fetches, the guarded profile, the response
stocksRoute(upperSymbol, quote, profile, technical) ==
    IF stocks_rejected(quote, profile, technical)
    THEN Respond(500, [success |-> FALSE,
                       error |-> IF quote.threw THEN quote.error
                                 ELSE IF profile.threw THEN profile.error
                                 ELSE Get(technical, "error")])
    ELSE Respond(200,
           [success |-> TRUE,
            data |->
              [symbol |-> quote.value.symbol,
               name |-> Or(Get(profile.value, "name"), Str(upperSymbol)),
               quote |-> [currentPrice |-> quote.value.currentPrice,
                          previousClose |-> quote.value.previousClose,
                          change |-> quote.value.change],
               profile |->
                 [exchange |-> Or(Get(profile.value, "exchange"), Str("N/A")),
                  finnhubIndustry |-> Or(Get(profile.value, "finnhubIndustry"), Str("N/A")),
                  marketCapitalization |->
                      Or(Get(profile.value, "marketCapitalization"), Num(0)),
                  country |-> Or(Get(profile.value, "country"), Str("N/A")),
                  currency |-> Or(Get(profile.value, "currency"), Str("USD")),
                  weburl |-> Or(Get(profile.value, "weburl"), Str(""))],
               technical |->
                 [rsi |-> technical.value.rsi, ma50 |-> technical.value.ma50,
                  ma200 |-> technical.value.ma200, trend |-> technical.value.trend,
                  volatility |-> technical.value.volatility,
                  macd |-> technical.value.macd,
                  bollingerBands |-> technical.value.bollingerBands,
                  signals |-> technical.value.signals]]])

GetStock ==
    /\ pc = "idle"
    /\ \E s \in Symbols :
        \E quote \in QuoteRuns[s], profile \in ProfileRuns[s],
           technical \in IndicatorOutcomes[s] :
            /\ args' = [symbol |-> s]
            /\ calls' = quote.calls
                        \o <<[profileFailed |-> profile.failed,
                              indicatorsFailed |-> technical.threw
                                                   \/ "error" \in DOMAIN technical.value]>>
            /\ result' = stocksRoute(s, quote.out, profile.out, technical)
    /\ pc' = "done"
    /\ op' = "getStock"
    /\ UNCHANGED <<holdings, advice, enriched>>

\* the fields PATCH /holdings/:id/ai-suggestions takes from the body and stores
SuggestionFields ==
    {"confidence", "stopLoss", "addMorePrice", "targetPrice", "action", "technicalSignals"}

\* the validation of the route: any of the four numbers falsy
patch_missing(body) ==
    \/ ~Truthy(Get(body, "confidence"))
    \/ ~Truthy(Get(body, "stopLoss"))
    \/ ~Truthy(Get(body, "addMorePrice"))
    \/ ~Truthy(Get(body, "targetPrice"))

StoreError == [by |-> "supabase", message |-> "update failed"]

\* the store's answer to the update: the row, or an error
StoreOutcomes == {[ok |-> TRUE], [ok |-> FALSE, error |-> StoreError]}

\* PATCH /holdings/:id/ai-suggestions
patchRoute(id, body, store) ==
    IF patch_missing(body)
    THEN Respond(400, [success |-> FALSE, error |-> "missing data"])
    ELSE IF ~store.ok THEN Respond(500, [success |-> FALSE, error |-> store.error])
    ELSE Respond(200, [success |-> TRUE,
                       data |-> [id |-> id,
                                 ai_suggestions |->
                                     [f \in SuggestionFields |-> Get(body, f)]]])

\* the client sends an advice record of the batch it was just served back to
\* the holding it belongs to, unchanged
PatchSuggestions ==
    /\ pc = "done"
    /\ op = "postHoldings"
    /\ result.status = 200
    /\ \E i \in 1..Len(advice), store \in StoreOutcomes :
        /\ args' = [id |-> i, body |-> advice[i]]
        /\ calls' = <<store>>
        /\ result' = patchRoute(i, advice[i], store)
    /\ op' = "patchSuggestions"
    /\ UNCHANGED <<pc, holdings, advice, enriched>>

\* the caller has consumed the completion; the service keeps no state
Complete ==
    /\ pc = "done"
    /\ pc' = "idle"
    /\ op' = "none"
    /\ args' = [symbol |-> "AAPL"]
    /\ calls' = <<>>
    /\ result' = NoResult
    /\ holdings' = <<>>
    /\ advice' = <<>>
    /\ enriched' = <<>>

Next ==
    \/ GetQuote
    \/ GetProfile
    \/ GetNews
    \/ SearchSymbol
    \/ GetCandles
    \/ GetTechnicalIndicators
    \/ PostHoldings
    \/ FetchHolding
    \/ AnalyzeHolding
    \/ PostPortfolio
    \/ PortfolioSettle
    \/ AnalyzePortfolio
    \/ AnalyzeSingleStock
    \/ GetStock
    \/ PatchSuggestions
    \/ Complete

Spec == Init /\ [][Next]_vars

(***************************************************************************)
(* Price levels on their own: calculateSmartPrices applied to one input    *)
(***************************************************************************)
\* current and buy prices in cents, from a penny stock to a doubling
CurrentPrices == {1, 75, 85, 97, 104, 115, 125, 150, 200}
BuyPrices == {1, 100}

PriceIndicators ==
    [rsi : {Null, Num(25), Num(75)},
     ma50 : {Null, Num(90), Num(160)},
     ma200 : {Null, Num(90), Num(160)},
     bollingerBands : {Null, [upper |-> 170, middle |-> 120, lower |-> 80],
                       [upper |-> 60, middle |-> 25, lower |-> -10]}]

SmartPriceInputs ==
    [currentPrice : CurrentPrices, buyPrice : BuyPrices, technical : PriceIndicators,
     signals : [overall : {"bullish", "neutral"}], tieUp : BOOLEAN]

InitPrices ==
    /\ pc = "called"
    /\ op = "calculateSmartPrices"
    /\ args \in SmartPriceInputs
    /\ calls = <<>>
    /\ result = NoResult
    /\ holdings = <<>>
    /\ advice = <<>>
    /\ enriched = <<>>

SmartPrices ==
    /\ pc = "called"
    /\ op = "calculateSmartPrices"
    /\ pc' = "done"
    /\ result' = Returned(calculateSmartPrices(args.currentPrice, args.buyPrice,
                                               args.technical, args.signals, args.tieUp))
    /\ UNCHANGED <<op, args, calls, holdings, advice, enriched>>

NextPrices == SmartPrices

SpecPrices == InitPrices /\ [][NextPrices]_vars

(***************************************************************************)
(* The indicator engine on its own: each function applied to one series    *)
(***************************************************************************)
MaxLen == 5
MaxPrice == 2
MaxPeriod == 3

\* close series with the zeros an upstream gap is normalised to
EngineSeries == UNION {[1..n -> 0..MaxPrice] : n \in 0..MaxLen}

\* the periods of a chart, scaled to the series: two means, short at most
\* long, and the three of the MACD, fast below slow and every smoothing
\* factor 2/(period+1) below 1 as with 12, 26 and 9
ChartPeriods ==
    {p \in [short : 1..MaxPeriod, long : 1..MaxPeriod, fast : {2}, slow : {3},
            signal : 1..2] : p.short <= p.long}

EngineInputs == [closes : EngineSeries, period : 1..MaxPeriod, periods : ChartPeriods]

InitEngine ==
    /\ pc = "called"
    /\ op = "engine"
    /\ args \in {a \in EngineInputs : a.period = a.periods.long}
    /\ calls = <<>>
    /\ result = NoResult
    /\ holdings = <<>>
    /\ advice = <<>>
    /\ enriched = <<>>

\* one engine function applied to the series, its value kept as the result
Apply(name, value) ==
    /\ pc = "called"
    /\ pc' = "done"
    /\ op' = name
    /\ result' = Returned(value)
    /\ UNCHANGED <<args, calls, holdings, advice, enriched>>

CalculateRSI == Apply("calculateRSI", calculateRSI(Prices(args.closes), args.period))

CalculateSMA == Apply("calculateSMA", calculateSMA(Prices(args.closes), args.period))

CalculateSMAHistory ==
    Apply("calculateSMAHistory", calculateSMAHistory(Prices(args.closes), args.period))

CalculateEMA == Apply("calculateEMA", calculateEMA(Prices(args.closes), args.period))

CalculateEMAAtIndex ==
    /\ pc = "called"
    /\ \E index \in 0..MaxLen :
        /\ calls' = <<index>>
        /\ result' = Returned(calculateEMAAtIndex(Prices(args.closes), args.period, index))
    /\ pc' = "done"
    /\ op' = "calculateEMAAtIndex"
    /\ UNCHANGED <<args, holdings, advice, enriched>>

CalculateMACDHistory ==
    Apply("calculateMACDHistory",
          calculateMACDHistory(Prices(args.closes), args.periods.fast, args.periods.slow,
                               args.periods.signal))

CalculateMACDFull ==
    Apply("calculateMACDFull",
          calculateMACDFull(Prices(args.closes), args.periods.fast, args.periods.slow,
                            args.periods.signal))

CalculateBollingerBands ==
    Apply("calculateBollingerBands",
          calculateBollingerBands(Prices(args.closes), args.period, 2))

CalculateVolatility ==
    Apply("calculateVolatility", calculateVolatility(Prices(args.closes), args.period))

\* detectSignals on the RSI and the MACD computed from the same series
DetectSignals ==
    /\ pc = "called"
    /\ pc' = "done"
    /\ op' = "detectSignals"
    /\ result' = detectSignals(Prices(args.closes),
                               calculateRSI(Prices(args.closes), args.period),
                               calculateMACDFull(Prices(args.closes), args.periods.fast,
                                                 args.periods.slow, args.periods.signal))
    /\ UNCHANGED <<args, calls, holdings, advice, enriched>>

GetChartData ==
    /\ pc = "called"
    /\ pc' = "done"
    /\ op' = "getChartData"
    /\ result' = getChartData(args.closes, args.periods)
    /\ UNCHANGED <<args, calls, holdings, advice, enriched>>

Candles == Apply("candles", candlesRoute(args.closes, args.periods))

NextEngine ==
    \/ CalculateRSI
    \/ CalculateSMA
    \/ CalculateSMAHistory
    \/ CalculateEMA
    \/ CalculateEMAAtIndex
    \/ CalculateMACDHistory
    \/ CalculateMACDFull
    \/ CalculateBollingerBands
    \/ CalculateVolatility
    \/ DetectSignals
    \/ GetChartData
    \/ Candles

SpecEngine == InitEngine /\ [][NextEngine]_vars

(***************************************************************************)
(* The scorer on its own: calculateTechnicalSignals, calculateBaseConfidence *)
(* and the rule-based advice applied to one indicator set                  *)
(***************************************************************************)
\* indicator sets as getTechnicalIndicators hands them on: any RSI from 0 to
\* 100 or none, the MACD rising, falling hard or flat, the means crossed
\* either way, bands around 105
ScoreIndicators ==
    {[rsi |-> rsi, ma50 |-> ma.ma50, ma200 |-> ma.ma200, macd |-> macd,
      bollingerBands |-> bands] :
        rsi \in {Null} \cup {Num(r) : r \in 0..100},
        ma \in {[ma50 |-> Null, ma200 |-> Null], [ma50 |-> Num(110), ma200 |-> Num(100)],
                [ma50 |-> Num(90), ma200 |-> Num(100)]},
        macd \in {Null, [macd |-> 2, signal |-> 1, histogram |-> 1],
                  [macd |-> -8, signal |-> -2, histogram |-> -6],
                  [macd |-> 1, signal |-> 1, histogram |-> 0]},
        bands \in {Null, [upper |-> 120, middle |-> 105, lower |-> 90]}}

ScorePrices == {75, 95, 105, 125}

\* Math.floor(Math.random() * 7) - 3
JitterDraws == -3..3

ScoreInputs == [technical : ScoreIndicators, currentPrice : ScorePrices, buyPrice : {100}]

InitSignals ==
    /\ pc = "called"
    /\ op = "scorer"
    /\ args \in ScoreInputs
    /\ calls = <<>>
    /\ result = NoResult
    /\ holdings = <<>>
    /\ advice = <<>>
    /\ enriched = <<>>

ScoredQuote == [currentPrice |-> Num(args.currentPrice)]

CalculateTechnicalSignals ==
    /\ pc = "called"
    /\ pc' = "done"
    /\ op' = "calculateTechnicalSignals"
    /\ result' = Returned(calculateTechnicalSignals(args.technical, ScoredQuote))
    /\ UNCHANGED <<args, calls, holdings, advice, enriched>>

CalculateBaseConfidence ==
    /\ pc = "called"
    /\ \E jitter \in JitterDraws :
        /\ calls' = <<jitter>>
        /\ result' = Returned(calculateBaseConfidence(
                                  calculateTechnicalSignals(args.technical, ScoredQuote),
                                  args.technical, args.currentPrice, args.buyPrice, jitter))
    /\ pc' = "done"
    /\ op' = "calculateBaseConfidence"
    /\ UNCHANGED <<args, holdings, advice, enriched>>

\* the runs of the model loop that leave generateHoldingAdvice with its rules
\* alone: both models failed, a reply without JSON, a reply that does not parse
FallbackRuns == {<<ModelFailure, ModelFailure>>, <<[kind |-> "prose"]>>, <<[kind |-> "badjson"]>>}

RuleBasedAdvice ==
    /\ pc = "called"
    /\ \E jitter \in Jitter, run \in FallbackRuns, tieUp \in BOOLEAN :
        /\ calls' = <<jitter, run[Len(run)].kind>>
        /\ result' = generateHoldingAdvice(
                         [symbol |-> Str("AAPL"), buy_price |-> Num(args.buyPrice)],
                         ScoredQuote, args.technical,
                         calculateTechnicalSignals(args.technical, ScoredQuote),
                         run, jitter, 8, tieUp)
    /\ pc' = "done"
    /\ op' = "generateHoldingAdvice"
    /\ UNCHANGED <<args, holdings, advice, enriched>>

NextSignals == CalculateTechnicalSignals \/ CalculateBaseConfidence \/ RuleBasedAdvice

SpecSignals == InitSignals /\ [][NextSignals]_vars

(***************************************************************************)
(* The fused calls step by step: each upstream request is in flight until  *)
(* the provider answers or the request's own timer, if it has one, fires   *)
(***************************************************************************)
\* the operations of StockService followed here; getCandles has no secondary
FusedOps == {"getQuote", "getNews", "searchSymbol", "getCandles"}

FusedArgs(o) ==
    CASE o = "getQuote" -> {[symbol |-> s] : s \in Symbols}
      [] o = "getNews" -> {[symbol |-> s, limit |-> l] : s \in Symbols, l \in Limits}
      [] o = "searchSymbol" -> {[query |-> q] : q \in Queries}
      [] o = "getCandles" -> {[symbol |-> s, daysBack |-> d] : s \in Symbols, d \in DaysBack}

PrimaryBodies(o, a) ==
    CASE o = "getQuote" -> YahooQuoteResponses(a.symbol)
      [] o = "getNews" -> YahooNewsResponses
      [] o = "searchSymbol" -> YahooSearchResponses
      [] o = "getCandles" -> YahooHistoryResponses

SecondaryBodies(o) ==
    CASE o = "getQuote" -> FinnhubQuoteResponses
      [] o = "getNews" -> FinnhubNewsResponses
      [] o = "searchSymbol" -> FinnhubSearchResponses
      [] o = "getCandles" -> HttpFail(FinnhubErrors)

FusedCall(o, a, yResp, fResp) ==
    CASE o = "getQuote" -> getQuote(a.symbol, yResp, fResp)
      [] o = "getNews" -> getNews(a.symbol, a.limit, yResp, fResp)
      [] o = "searchSymbol" -> searchSymbol(a.query, yResp, fResp)
      [] o = "getCandles" -> getCandles(a.symbol, a.daysBack, yResp)

\* the failure axios raises itself when a request's `timeout` runs out
TimedOut(resp) == ~resp.ok /\ resp.error.message = "timeout of 10000ms exceeded"

Invoke ==
    /\ pc = "idle"
    /\ \E o \in FusedOps :
        \E a \in FusedArgs(o) :
            /\ op' = o
            /\ args' = a
    /\ pc' = "awaitPrimary"
    /\ calls' = <<>>
    /\ result' = NoResult
    /\ UNCHANGED <<holdings, advice, enriched>>

\* the primary's request completes with yResp: the call either settles the
\* operation or leaves it waiting on the secondary
PrimaryCompletes(yResp) ==
    LET r == FusedCall(op, args, yResp, CHOOSE f \in SecondaryBodies(op) : TRUE)
    IN  /\ calls' = <<r.calls[1]>>
        /\ IF Len(r.calls) = 1
           THEN pc' = "done" /\ result' = r.out
           ELSE pc' = "awaitSecondary" /\ result' = result
        /\ UNCHANGED <<op, args, holdings, advice, enriched>>

PrimaryAnswers ==
    /\ pc = "awaitPrimary"
    /\ \E yResp \in PrimaryBodies(op, args) : ~TimedOut(yResp) /\ PrimaryCompletes(yResp)

\* every request of YahooFinanceService carries `timeout`
PrimaryTimesOut ==
    /\ pc = "awaitPrimary"
    /\ \E yResp \in PrimaryBodies(op, args) : TimedOut(yResp) /\ PrimaryCompletes(yResp)

\* the requests of FinnhubService carry no `timeout`: only an answer, or a
\* failure reported by the network, ends the wait
SecondaryAnswers ==
    /\ pc = "awaitSecondary"
    /\ \E yResp \in PrimaryBodies(op, args), fResp \in SecondaryBodies(op) :
        LET r == FusedCall(op, args, yResp, fResp)
        IN  /\ r.calls[1] = calls[1]
            /\ calls' = r.calls
            /\ result' = r.out
    /\ pc' = "done"
    /\ UNCHANGED <<op, args, holdings, advice, enriched>>

NextLive == Invoke \/ PrimaryAnswers \/ PrimaryTimesOut \/ SecondaryAnswers

\* a timer that is running fires; a provider need not ever answer
SpecLive == Init /\ [][NextLive]_vars /\ WF_vars(Invoke) /\ WF_vars(PrimaryTimesOut)

(***************************************************************************)
(* The signal rules on full-length series: detectSignals and the try block *)
(* of getTechnicalIndicators on the 50 and 200 day means                   *)
(***************************************************************************)
MaxClose == 2

\* lengths around the two windows of the cross
RuleLengths == {49, 50, 199, 200, 201}

\* a series of n closes in three stretches: the closes before the last 50
\* days, the last 50 days but one, and the last close
BlockSeries(n, old, recent, last) ==
    [i \in 1..n |-> IF i = n THEN last ELSE IF i > n - 50 THEN recent ELSE old]

\* RSI values on and around the two thresholds
RsiReadings ==
    {Whole(0), Frac(2999, 100), Whole(30), Frac(3001, 100), Whole(50),
     Frac(6999, 100), Whole(70), Frac(7001, 100), Whole(100)}

\* MACD values with the histogram on and around 0.3 on both sides
MacdReadings ==
    {Null} \cup
    {[macd |-> h, signal |-> Whole(0), histogram |-> h] :
        h \in {Whole(-1), Frac(-3001, 10000), Frac(-3, 10), Whole(0),
               Frac(3, 10), Frac(3001, 10000), Whole(1)}}

RuleInputs ==
    [n : RuleLengths, old : 0..MaxClose, recent : 0..MaxClose, last : 0..MaxClose,
     rsi : RsiReadings, macd : MacdReadings]

RuleSeries(a) == BlockSeries(a.n, a.old, a.recent, a.last)

InitRules ==
    /\ pc = "called"
    /\ op = "rules"
    /\ args \in RuleInputs
    /\ calls = <<>>
    /\ result = NoResult
    /\ holdings = <<>>
    /\ advice = <<>>
    /\ enriched = <<>>

\* `a > b` on numbers that may be null: null compares as 0
Above(x, y) ==
    FLess(IF y = Null THEN Whole(0) ELSE y, IF x = Null THEN Whole(0) ELSE x)

\* TechnicalIndicators.getTrend on the unrounded means
trend_M_meansOnly(currentPrice, ma50, ma200) ==
    IF Above(ma50, ma200) THEN Str("uptrend")
    ELSE IF Above(ma200, ma50) THEN Str("downtrend")
    ELSE Str("consolidating")
trend(currentPrice, ma50, ma200) ==
    IF Above(currentPrice, ma50) /\ Above(ma50, ma200) THEN Str("uptrend")
    ELSE IF Above(ma50, currentPrice) /\ Above(ma200, ma50) THEN Str("downtrend")
    ELSE Str("consolidating")

BasicIndicatorError ==
    [by |-> "stockService", cause |-> "Basic indicator calculation failed"]

\* the try block of getTechnicalIndicators from the close series on, with the
\* RSI and the MACD the engine read off the series; the bands and the
\* volatility, which enter neither the trend nor the signals, are left out
indicatorSet(closePrices, rsi, macd) ==
    IF Len(closePrices) < MinHistory THEN Thrown(InsufficientData)
    ELSE LET prices == Prices(closePrices)
             ma50 == calculateSMA(prices, 50)
             ma200 == calculateSMA(prices, 200)
             currentPrice == prices[Len(prices)]
         IN  IF rsi = Null \/ ma50 = Null \/ ma200 = Null
             THEN Thrown(BasicIndicatorError)
             ELSE LET signals == detectSignals(prices, rsi, macd)
                  IN  IF signals.threw THEN signals
                      ELSE Returned(
                           [rsi |-> toFixed(rsi, 2), ma50 |-> toFixed(ma50, 2),
                            ma200 |-> toFixed(ma200, 2),
                            trend |-> trend(currentPrice, ma50, ma200),
                            currentPrice |-> toFixed(currentPrice, 2),
                            dataPoints |-> Len(closePrices),
                            macd |-> macd, signals |-> signals.value])

\* detectSignals applied to the series and the two readings
DetectRules ==
    /\ pc = "called"
    /\ pc' = "done"
    /\ op' = "detectSignals"
    /\ result' = detectSignals(Prices(RuleSeries(args)), args.rsi, args.macd)
    /\ UNCHANGED <<args, calls, holdings, advice, enriched>>

\* getTechnicalIndicators once the candles are in: the try block, and the
\* catch block's all-unknown set on an error
EngineIndicators ==
    /\ pc = "called"
    /\ pc' = "done"
    /\ op' = "getTechnicalIndicators"
    /\ LET t == indicatorSet(RuleSeries(args), args.rsi, args.macd)
       IN  result' = IF t.threw THEN getTechnicalIndicators_caught(t.error) ELSE t
    /\ UNCHANGED <<args, calls, holdings, advice, enriched>>

NextRules ==
    \/ DetectRules
    \/ EngineIndicators

SpecRules == InitRules /\ [][NextRules]_vars

(***************************************************************************)
(* Properties of the fusion layer                                          *)
(***************************************************************************)
Done(o) == pc = "done" /\ op = o

Consulted(svc) == \E i \in DOMAIN calls : calls[i].svc = svc

\* C1: when the primary quote call and the secondary quote call both fail,
\* getQuote fails with the very error the primary raised, never the secondary's.
C1_BothFailSurfacesPrimaryError ==
    (Done("getQuote") /\ Len(calls) = 2 /\ calls[1].out.threw /\ calls[2].out.threw)
        => /\ calls[1].svc = "yahoo"
           /\ result.threw
           /\ result.error = calls[1].out.error

\* both providers failed with the same message; only the origin tells them apart
C1_Witness ==
    /\ Done("getQuote") /\ Len(calls) = 2
    /\ calls[1].out.threw /\ calls[2].out.threw
    /\ calls[1].out.error.message = calls[2].out.error.message
    /\ result.threw /\ result.error.by = "yahoo"

\* C2: the secondary quote call is made only after the primary call failed,
\* and a failed primary followed by a successful secondary returns exactly the
\* secondary's quote without raising.
C2_SecondaryOnlyAfterPrimaryFailure ==
    Done("getQuote")
        => /\ Len(calls) >= 1 /\ calls[1].svc = "yahoo"
           /\ \A i \in DOMAIN calls :
                 calls[i].svc = "finnhub" => (i = 2 /\ calls[1].out.threw)
           /\ calls[1].out.threw => Len(calls) = 2 /\ calls[2].svc = "finnhub"
           /\ (Len(calls) = 2 /\ ~calls[2].out.threw)
                 => result = Returned(calls[2].out.value)
           /\ ~calls[1].out.threw => result = calls[1].out

C2_Witness ==
    /\ Done("getQuote") /\ Len(calls) = 2
    /\ calls[1].out.threw
    /\ calls[1].out.error.message = "timeout of 10000ms exceeded"
    /\ ~calls[2].out.threw
    /\ ~result.threw /\ result.value.currentPrice = Num(101)

\* the primary and secondary profiles a finished getProfile worked from
PrimaryProfile == calls[1].out.value
SecondaryProfile ==
    IF Len(calls) = 2 /\ ~calls[2].out.threw THEN calls[2].out.value ELSE Null

\* a value that is neither empty, zero, missing nor a placeholder
NonSentinel(f, v) ==
    /\ Truthy(v)
    /\ v # Str("N/A")
    /\ f = "name" => v # Str(args.symbol)

\* the merge the specification describes: primary if non-sentinel, else
\* secondary, else the hard-coded sentinel
SpecMerge(f) ==
    IF NonSentinel(f, Get(PrimaryProfile, f)) THEN Get(PrimaryProfile, f)
    ELSE IF NonSentinel(f, Get(SecondaryProfile, f)) THEN Get(SecondaryProfile, f)
    ELSE SentinelProfile(args.symbol)[f]

\* C3: getProfile merges per field with primary dominance: the primary's value
\* if it is non-sentinel, non-empty and non-zero, else the secondary's, else the
\* hard-coded sentinel.
C3_PerFieldMerge ==
    (Done("getProfile") /\ Len(calls) = 2 /\ ~calls[2].out.threw)
        => \A f \in ProfileFields : result.value[f] = SpecMerge(f)

ProfileComplete(p) ==
    /\ NonSentinel("name", Get(p, "name"))
    /\ NonSentinel("finnhubIndustry", Get(p, "finnhubIndustry"))
    /\ IsNum(Get(p, "marketCapitalization")) /\ Get(p, "marketCapitalization").v > 0

\* C4: getProfile attempts the secondary whenever the primary profile is
\* incomplete (sentinel name, or empty/sentinel industry, or market cap not
\* strictly positive) and skips it only when all three are present.
C4_SecondaryIffIncomplete ==
    Done("getProfile") => (Consulted("finnhub") <=> ~ProfileComplete(PrimaryProfile))

SuppliedBy(p, f) ==
    Truthy(Get(p, f)) /\ Get(p, f) # SentinelProfile(args.symbol)[f]

\* C5: getProfile never fails: whatever the primary and secondary calls do, it
\* returns a record with all seven fields, holding the sentinel wherever no
\* provider supplied a value.
C5_ProfileNeverFails ==
    Done("getProfile")
        => /\ ~result.threw
           /\ DOMAIN result.value = ProfileFields
           /\ \A f \in ProfileFields :
                 /\ result.value[f].t = SentinelProfile(args.symbol)[f].t
                 /\ (~SuppliedBy(PrimaryProfile, f) /\ ~SuppliedBy(SecondaryProfile, f))
                       => result.value[f] = SentinelProfile(args.symbol)[f]

\* every primary request failed and the secondary threw: all sentinels
C5_Witness ==
    /\ Done("getProfile") /\ Len(calls) = 2
    /\ calls[2].out.threw
    /\ ~result.threw
    /\ result.value = SentinelProfile(args.symbol)

\* C6: getNews returns the primary's news when that is non-empty, otherwise
\* the secondary's, otherwise the empty sequence; the secondary is consulted
\* only when the primary's result is empty, and the call never raises.
C6_NewsPrimaryElseSecondary ==
    Done("getNews")
        => /\ ~result.threw
           /\ calls[1].svc = "yahoo"
           /\ Len(calls[1].out.value) > 0
                 => (Len(calls) = 1 /\ result.value = calls[1].out.value)
           /\ Len(calls[1].out.value) = 0
                 => /\ Len(calls) = 2 /\ calls[2].svc = "finnhub"
                    /\ result.value = calls[2].out.value
                    /\ ~calls[2].answered => result.value = <<>>

C6_Witness ==
    /\ Done("getNews") /\ Len(calls) = 2
    /\ calls[1].out.value = <<>>
    /\ Len(result.value) = args.limit
    /\ result.value[1].source = Str("CNBC")

\* C7: searchSymbol returns the primary's result when the primary search
\* succeeds, the secondary's result when the primary's upstream search call
\* fails, the empty sequence when both fail, and never fails upward.
C7_SearchFallsBackOnUpstreamFailure ==
    Done("searchSymbol")
        => /\ ~result.threw
           /\ calls[1].answered => result = calls[1].out
           /\ ~calls[1].answered
                 => /\ Len(calls) = 2 /\ calls[2].svc = "finnhub"
                    /\ result.value = IF calls[2].out.threw THEN <<>> ELSE calls[2].out.value

\* C8: getCandles delegates to the primary only and treats any series the
\* primary returns, also one with zero points or fewer than 200, as a valid
\* return; it fails, with an error naming the symbol, only when the primary
\* call itself fails.
C8_AnySeriesIsValid ==
    Done("getCandles")
        => /\ Len(calls) = 1 /\ calls[1].svc = "yahoo"
           /\ result.threw <=> calls[1].out.threw
           /\ ~result.threw => result = calls[1].out
           /\ result.threw => result.error.symbol = args.symbol

\* C8 as the code has it: a series with at least one point is returned as it
\* came, however short; an empty series and a failed primary call both fail
\* with an error naming the symbol.
C8_NonEmptySeriesIsValid ==
    Done("getCandles")
        => /\ Len(calls) = 1 /\ calls[1].svc = "yahoo"
           /\ result.threw
                 <=> (calls[1].out.threw \/ Len(calls[1].out.value.timestamps) = 0)
           /\ ~result.threw => result = calls[1].out
           /\ result.threw
                 => ("symbol" \in DOMAIN result.error /\ result.error.symbol = args.symbol)

\* a one-point series handed to the caller
C8_Witness ==
    /\ Done("getCandles")
    /\ ~result.threw
    /\ Len(result.value.timestamps) = 1
    /\ Len(result.value.timestamps) < MinHistory

(***************************************************************************)
(* Properties of the batch routes                                          *)
(***************************************************************************)
IsDegraded(a) == a.action = Str("HOLD") /\ a.confidence = Num(0)

C10_QuoteFailureDoesNotAbort ==
    (Done("postPortfolio") /\ \E i \in DOMAIN calls : calls[i].quoteFailed)
        => /\ result.status = 200
           /\ result.body.success

AdviceActions == {Str("HOLD"), Str("BUY_MORE"), Str("REDUCE"), Str("SELL")}

\* C11: every advice record answered by POST /analysis/holdings has an action
\* among HOLD, BUY_MORE, REDUCE and SELL, whatever the model replied.
C11_ActionInEnum ==
    (Done("postHoldings") /\ result.status = 200)
        => \A i \in DOMAIN result.body.advice :
                result.body.advice[i].action \in AdviceActions

\* C12: every advice record answered by POST /analysis/holdings has a
\* confidence that is a number between 0 and 100, whatever the model replied.
C12_ConfidenceInRange ==
    (Done("postHoldings") /\ result.status = 200)
        => \A i \in DOMAIN result.body.advice :
                /\ IsNum(result.body.advice[i].confidence)
                /\ result.body.advice[i].confidence.v \in 0..100

(***************************************************************************)
(* Properties of the price levels                                          *)
(***************************************************************************)
\* C13 as stated: for positive current and buy prices and any indicator set,
\* the returned levels satisfy stopLoss <= 0.95 * currentPrice, addMorePrice
\* <= 0.98 * currentPrice and, when the profit is at most 50%, targetPrice >=
\* 1.02 * currentPrice.
C13_PriceLadderClamps ==
    Done("calculateSmartPrices")
        => /\ result.value.stopLoss * 100 <= args.currentPrice * 95
           /\ result.value.addMorePrice * 100 <= args.currentPrice * 98
           /\ ~PnlAbove(args.currentPrice, args.buyPrice, 50)
                => result.value.targetPrice * 100 >= args.currentPrice * 102

\* C13, amended: the returned levels are rounded to the cent after the
\* clamps, so each bound holds to within half a cent: stopLoss <= 0.95 *
\* currentPrice + 0.005, addMorePrice <= 0.98 * currentPrice + 0.005 and, when
\* the profit is at most 50%, targetPrice >= 1.02 * currentPrice - 0.005.
C13_ClampsUpToRounding ==
    Done("calculateSmartPrices")
        => /\ result.value.stopLoss * 100 <= args.currentPrice * 95 + 50
           /\ result.value.addMorePrice * 100 <= args.currentPrice * 98 + 50
           /\ ~PnlAbove(args.currentPrice, args.buyPrice, 50)
                => result.value.targetPrice * 100 >= args.currentPrice * 102 - 50

\* a small profit whose stop-loss was cut down to 95% of the price and then
\* rounded up to the next cent
C13_Witness ==
    /\ Done("calculateSmartPrices")
    /\ args.currentPrice = 104 /\ args.buyPrice = 100
    /\ result.value.stopLoss = 99
    /\ result.value.addMorePrice * 100 <= args.currentPrice * 98

(***************************************************************************)
(* Properties of the indicator set                                         *)
(***************************************************************************)
AllUnknown(t) ==
    /\ t.rsi = Null /\ t.ma50 = Null /\ t.ma200 = Null /\ t.volatility = Null
    /\ t.macd = Null /\ t.bollingerBands = Null
    /\ t.trend = Str("unknown")
    /\ t.signals = Arr(<<>>)
    /\ "error" \in DOMAIN t

\* C14: getTechnicalIndicators never throws; when the candle fetch failed or
\* fewer than 200 closes came back it returns the set whose rsi, ma50, ma200,
\* volatility, macd and bollingerBands are null, whose trend is unknown,
\* whose signals are empty and which carries an error message.
C14_IndicatorsNeverThrow ==
    Done("getTechnicalIndicators")
        => /\ ~result.threw
           /\ (calls[1].out.threw \/ Len(calls[1].out.value.close) < MinHistory)
                => AllUnknown(result.value)

\* one short of the minimum history, and a failed candle request
C14_Witness ==
    /\ Done("getTechnicalIndicators")
    /\ ~calls[1].out.threw
    /\ Len(calls[1].out.value.close) = MinHistory - 1
    /\ AllUnknown(result.value)
    /\ result.value.error = InsufficientData

(***************************************************************************)
(* Properties of the narrative service                                     *)
(***************************************************************************)
\* C15: analyzeSingleStock and analyzePortfolio walk the model list in order:
\* call k is to model k and follows a failed call k-1, the template is
\* returned only after every model of the list was called and failed, the
\* model field names the model whose text is returned, and the caller gets
\* a narrative, never an error.
C15_ModelListIsPreferenceOrder ==
    (Done("analyzeSingleStock") \/ Done("analyzePortfolio"))
        => /\ ~result.threw
           /\ \A k \in DOMAIN calls :
                /\ calls[k].fn = models[k]
                /\ k > 1 => calls[k - 1].out.threw
           /\ result.value.model = "static-fallback"
                => /\ Len(calls) = Len(models)
                   /\ \A k \in DOMAIN calls : calls[k].out.threw
           /\ result.value.model # "static-fallback"
                => /\ ~calls[Len(calls)].out.threw
                   /\ result.value.model = calls[Len(calls)].fn

\* the histories the chart of the series in args is assembled from, computed
\* by the engine directly
ChartHistories ==
    [ma50 |-> calculateSMAHistory(Prices(args.closes), args.periods.short),
     ma200 |-> calculateSMAHistory(Prices(args.closes), args.periods.long),
     macd |-> calculateMACDHistory(Prices(args.closes), args.periods.fast,
                                   args.periods.slow, args.periods.signal)]

ChartServed == pc = "done" /\ op = "candles" /\ result.value.success

\* the row of zero-based day i carries history H under field f from the
\* start of H on and null before
RowAligned(i, H, f) ==
    LET startIndex == Len(args.closes) - Len(H)
        row == result.value.data[i + 1]
    IN  /\ row[f] # Null <=> i >= startIndex
        /\ i >= startIndex => row[f] = H[i - startIndex + 1]

\* C16: in the chart served by GET /stocks/candles/:symbol, for each of the
\* MA50, MA200 and MACD histories H with startIndex = len(series) - len(H),
\* the row of day i carries a non-null value if and only if i >= startIndex,
\* and that value is H[i - startIndex].
C16_ChartRowsAligned ==
    ChartServed =>
        LET histories == ChartHistories
            macd == [j \in 1..Len(histories.macd) |-> histories.macd[j].macd]
            signal == [j \in 1..Len(histories.macd) |-> histories.macd[j].signal]
            histogram == [j \in 1..Len(histories.macd) |-> histories.macd[j].histogram]
        IN  \A i \in 0..(Len(args.closes) - 1) :
                /\ RowAligned(i, histories.ma50, "ma50")
                /\ RowAligned(i, histories.ma200, "ma200")
                /\ RowAligned(i, macd, "macd")
                /\ RowAligned(i, signal, "signal")
                /\ RowAligned(i, histogram, "histogram")

\* a served chart whose three histories all start after day 0 and differ in
\* their starts, the MACD history not empty
C16_Witness ==
    /\ ChartServed
    /\ LET histories == ChartHistories
       IN  /\ Len(histories.macd) > 0
           /\ Len(histories.ma200) < Len(histories.ma50)
           /\ Len(histories.ma50) < Len(args.closes)
           /\ Len(histories.macd) < Len(histories.ma200)
    /\ result.value.data[1].ma50 = Null
    /\ result.value.data[Len(args.closes)].macd # Null

\* the closes up to zero-based day k, as the engine sees them
Upto(k) == Slice(Prices(args.closes), 1, k + 1)

\* the rounded mean computed for day k from the closes up to day k alone
SmaFor(k) == toFixed(calculateSMA(Upto(k), args.period), 2)

\* the rounded MACD value computed for day k from the closes up to day k alone
MacdFor(k) ==
    toFixed(FSub(calculateEMA(Upto(k), args.periods.fast),
                 calculateEMA(Upto(k), args.periods.slow)), 4)

\* the whole entry computed for day k, once the closes up to day k are
\* enough for a history of their own
EntryFor(k) ==
    LET history == calculateMACDHistory(Upto(k), args.periods.fast, args.periods.slow,
                                        args.periods.signal)
    IN  history[Len(history)]

SmaHistoryAligned ==
    pc = "done" /\ op = "calculateSMAHistory" =>
        LET H == result.value
            startIndex == Len(args.closes) - Len(H)
        IN  /\ startIndex >= 0
            /\ Len(H) = IF Len(args.closes) - args.period + 1 > 0
                        THEN Len(args.closes) - args.period + 1 ELSE 0
            /\ \A i \in 0..(Len(H) - 1) : H[i + 1] = SmaFor(startIndex + i)

MacdHistoryAligned ==
    pc = "done" /\ op = "calculateMACDHistory" =>
        LET H == result.value
            startIndex == Len(args.closes) - Len(H)
        IN  /\ startIndex >= 0
            /\ \A i \in 0..(Len(H) - 1) :
                /\ H[i + 1].macd = MacdFor(startIndex + i)
                /\ startIndex + i + 1 >= args.periods.slow + args.periods.signal
                    => H[i + 1] = EntryFor(startIndex + i)

\* C17: for every series of non-negative closes, leading zeros included, the
\* histories H of calculateSMAHistory and calculateMACDHistory have
\* startIndex = len(closes) - len(H) >= 0, entry i of H is the value computed
\* for price index startIndex + i from closes[0..startIndex+i] alone, and the
\* SMA history has max(0, len(closes) - period + 1) entries.
C17_HistoriesEndAligned == SmaHistoryAligned /\ MacdHistoryAligned

\* a MACD history of a series that opens with zeros: the days on which both
\* averages are still 0 are left out, and entries follow
C17_Witness ==
    /\ pc = "done"
    /\ op = "calculateMACDHistory"
    /\ Len(args.closes) > 0
    /\ args.closes[1] = 0
    /\ Len(result.value) > 1
    /\ Len(args.closes) - Len(result.value) > args.periods.slow - 1

Applied(name) == pc = "done" /\ op = name

\* the functions that answer unknown below period closes
ShortOfPeriod ==
    /\ Applied("calculateSMA") /\ Len(args.closes) < args.period
        => result = Returned(Null)
    /\ Applied("calculateEMA") /\ Len(args.closes) < args.period
        => result = Returned(Null)
    /\ Applied("calculateEMAAtIndex") /\ Len(args.closes) < args.period
        => result = Returned(Null)
    /\ Applied("calculateBollingerBands") /\ Len(args.closes) < args.period
        => result = Returned(Null)
    /\ Applied("calculateVolatility") /\ Len(args.closes) < args.period
        => result = Returned(Null)
    /\ Applied("calculateSMAHistory") /\ Len(args.closes) < args.period
        => result = Returned(<<>>)

\* the RSI below period + 1 closes, the MACD below slow + signal
ShortOfMore ==
    /\ Applied("calculateRSI") /\ Len(args.closes) < args.period + 1
        => result = Returned(Null)
    /\ Applied("calculateMACDFull")
       /\ Len(args.closes) < args.periods.slow + args.periods.signal
        => result = Returned(Null)
    /\ Applied("calculateMACDHistory")
       /\ Len(args.closes) < args.periods.slow + args.periods.signal
        => result = Returned(<<>>)

\* detectSignals handed the unknown RSI and MACD of a short series
SignalsOfShortSeries ==
    /\ Applied("detectSignals")
    /\ Len(args.closes) < args.period + 1
    /\ Len(args.closes) < args.periods.slow + args.periods.signal

\* C18: no engine function throws on insufficient history: on a series
\* shorter than its minimum, RSI, SMA, EMA, EMA-at-index, MACD-current,
\* Bollinger and volatility return unknown, the two histories return the
\* empty sequence, and detectSignals called with the unknown RSI and MACD of
\* that series returns a signal list.
C18_NoThrowOnShortHistory ==
    /\ ShortOfPeriod
    /\ ShortOfMore
    /\ SignalsOfShortSeries => ~result.threw

NonDecreasing(closes) == \A i \in 1..(Len(closes) - 1) : closes[i] <= closes[i + 1]
NonIncreasing(closes) == \A i \in 1..(Len(closes) - 1) : closes[i] >= closes[i + 1]
Falls(closes) == \E i \in 1..(Len(closes) - 1) : closes[i] > closes[i + 1]

RsiApplied == Applied("calculateRSI") /\ Len(args.closes) > args.period

\* C19: calculateRSI is 100 on every non-decreasing series longer than
\* period and 0 on every non-increasing series longer than period.
C19_RsiOfMonotoneSeries ==
    /\ RsiApplied /\ NonDecreasing(args.closes) => result = Returned(Whole(100))
    /\ RsiApplied /\ NonIncreasing(args.closes) => result = Returned(Whole(0))

\* C19 as the code has it: 100 on every non-decreasing series, the flat one
\* included; 0 on a non-increasing series that falls somewhere, for periods
\* of 2 and more; with period 1 the last change alone decides.
C19_RsiOfMonotoneAmended ==
    /\ RsiApplied /\ NonDecreasing(args.closes) => result = Returned(Whole(100))
    /\ RsiApplied /\ NonIncreasing(args.closes) /\ Falls(args.closes) /\ args.period >= 2
        => result = Returned(Whole(0))
    /\ RsiApplied /\ NonIncreasing(args.closes) /\ args.period = 1
        => result = Returned(IF args.closes[Len(args.closes)]
                                   < args.closes[Len(args.closes) - 1]
                             THEN Whole(0) ELSE Whole(100))

\* a series that falls, then stays flat through the smoothing loop, and
\* reads 0
C19_Witness ==
    /\ RsiApplied
    /\ args.period >= 2
    /\ Len(args.closes) > args.period + 1
    /\ NonIncreasing(args.closes)
    /\ Falls(args.closes)
    /\ args.closes[Len(args.closes)] = args.closes[Len(args.closes) - 1]
    /\ result = Returned(Whole(0))

BandsReturned == Applied("calculateBollingerBands") /\ Len(args.closes) >= args.period

\* how far the returned bands are from symmetric: (upper - middle) less
\* (middle - lower)
Asymmetry ==
    LET bands == result.value
    IN  FSub(FSub(bands.upper, bands.middle), FSub(bands.middle, bands.lower))

\* C20: the bands calculateBollingerBands returns are exactly symmetric,
\* upper - middle == middle - lower, on the returned two-decimal values.
C20_BandsExactlySymmetric == BandsReturned => FZero(Asymmetry)

\* C20 as the code has it: the bands are symmetric about the mean before
\* rounding and each is rounded to two decimals on its own, so the returned
\* bands are whole cents, in order, and symmetric to within one cent.
C20_BandsSymmetricToACent ==
    BandsReturned =>
        LET bands == result.value
        IN  /\ \A f \in {"upper", "middle", "lower"} : 100 % bands[f].d = 0
            /\ ~FLess(bands.upper, bands.middle)
            /\ ~FLess(bands.middle, bands.lower)
            /\ ~FLess(Frac(1, 100), FAbs(Asymmetry))
            /\ bands.middle = toFixed(calculateSMA(Prices(args.closes), args.period), 2)

\* bands a cent away from symmetric
C20_Witness ==
    /\ BandsReturned
    /\ FAbs(Asymmetry) = Frac(1, 100)
    /\ FLess(result.value.middle, result.value.upper)

Scored == pc = "done" /\ op = "calculateTechnicalSignals"

\* C21: each of the four per-indicator scores of calculateTechnicalSignals
\* lies in [0, 2.5] and their sum in [0, 10], for every indicator set and quote.
C21_ScoresOnScale ==
    Scored =>
        LET signals == result.value
        IN  /\ \A f \in {"macd", "rsi", "ma", "bollinger"} :
                signals[f].score >= 0 /\ signals[f].score <= 250
            /\ signals.macd.score + signals.rsi.score + signals.ma.score
                + signals.bollinger.score \in 0..1000

\* C22: calculateBaseConfidence returns an integer in [15, 95] for every
\* tally, RSI, profit or loss and jitter draw, and so an advice record made
\* on the rule-based path (models failed, or a reply without usable JSON)
\* carries a confidence in [15, 95].
C22_BaseConfidenceClamped ==
    /\ pc = "done" /\ op = "calculateBaseConfidence" => result.value \in 15..95
    /\ pc = "done" /\ op = "generateHoldingAdvice" =>
        /\ ~result.threw
        /\ IsNum(result.value.confidence)
        /\ result.value.confidence.v \in 15..95
        /\ result.value.action = Str("HOLD")

\* a rule-based record after both models failed, every term pushing up: the
\* sum of 107 comes back as 95
C22_Witness ==
    /\ pc = "done"
    /\ op = "generateHoldingAdvice"
    /\ calls = <<3, "failed">>
    /\ args.technical.rsi = Num(20)
    /\ args.technical.macd # Null
    /\ args.technical.ma50 = Num(110)
    /\ args.currentPrice = 125
    /\ result.value.confidence = Num(95)

\* C23: every upstream call made for StockService is bounded by a timeout
\* after which it counts as failed, so every getQuote invocation eventually
\* completes, with a quote or a failure, even if a provider never responds.
C23_GetQuoteCompletes == (op = "getQuote" /\ pc = "awaitPrimary") ~> (pc = "done")

\* C24: within one batch of POST /analysis/holdings the upstream calls of
\* different holdings are issued together: while the fetches of one holding
\* are still in flight, the fetches of every sibling have been issued too,
\* so that a slow call for one symbol holds back no sibling.
C24_SiblingsFetchedTogether ==
    (op = "postHoldings" /\ pc = "fetching") => IssuedHoldings = Len(holdings)

\* C26: for every non-negative close series of at least slow + signal
\* closes, calculateMACDFull returns the macd, signal and histogram of the
\* last entry of calculateMACDHistory on the same arguments, and the one is
\* unknown exactly when the other is empty.
C26_FullIsLastOfHistory ==
    Applied("calculateMACDFull")
        /\ Len(args.closes) >= args.periods.slow + args.periods.signal =>
        LET history == calculateMACDHistory(Prices(args.closes), args.periods.fast,
                                            args.periods.slow, args.periods.signal)
        IN  /\ result.value = Null <=> Len(history) = 0
            /\ Len(history) > 0 /\ result.value # Null =>
                /\ result.value.macd = history[Len(history)].macd
                /\ result.value.signal = history[Len(history)].signal
                /\ result.value.histogram = history[Len(history)].histogram

\* the sums of the last 50 and the last 200 closes of the series of a state
RuleSum50 == 49 * args.recent + args.last
RuleSum200 == 150 * args.old + RuleSum50

\* the signal each family's rule asks for, at most one per family
RuleRsi ==
    IF args.rsi.n <= 30 * args.rsi.d
    THEN <<[type |-> "buy", indicator |-> "RSI", strength |-> "strong"]>>
    ELSE IF args.rsi.n >= 70 * args.rsi.d
    THEN <<[type |-> "sell", indicator |-> "RSI", strength |-> "strong"]>>
    ELSE <<>>

RuleMacd ==
    IF args.macd = Null THEN <<>>
    ELSE IF 10 * args.macd.histogram.n > 3 * args.macd.histogram.d
    THEN <<[type |-> "buy", indicator |-> "MACD", strength |-> "medium"]>>
    ELSE IF 10 * args.macd.histogram.n < -3 * args.macd.histogram.d
    THEN <<[type |-> "sell", indicator |-> "MACD", strength |-> "medium"]>>
    ELSE <<>>

RuleGolden == args.n >= 200 /\ 4 * RuleSum50 > RuleSum200 /\ 50 * args.last > RuleSum50
RuleDeath == args.n >= 200 /\ 4 * RuleSum50 < RuleSum200 /\ 50 * args.last < RuleSum50

RuleCross ==
    IF RuleGolden THEN <<[type |-> "buy", indicator |-> "Golden Cross", strength |-> "strong"]>>
    ELSE IF RuleDeath THEN <<[type |-> "sell", indicator |-> "Death Cross", strength |-> "strong"]>>
    ELSE <<>>

\* C27: for a known RSI, detectSignals emits exactly the signals of the rule
\* set, in the order RSI, MACD, cross and at most one per family: RSI buy iff
\* rsi <= 30 and sell iff rsi >= 70; MACD buy iff the histogram is above 0.3
\* and sell iff it is below -0.3; golden cross iff SMA50 > SMA200 and the last
\* close is above SMA50, death cross iff SMA50 < SMA200 and the last close is
\* below SMA50; a buy and a sell of different families may stand together.
C27_SignalsFollowRules ==
    Applied("detectSignals") =>
        /\ ~result.threw
        /\ result.value = RuleRsi \o RuleMacd \o RuleCross

\* an RSI of exactly 70, a histogram just above 0.3 and a falling series:
\* a sell, a buy and a sell, one per family, in the order of the families
C27_Witness ==
    /\ Applied("detectSignals")
    /\ args.rsi = Whole(70)
    /\ args.macd # Null
    /\ args.n = 200
    /\ result.value = <<[type |-> "sell", indicator |-> "RSI", strength |-> "strong"],
                        [type |-> "buy", indicator |-> "MACD", strength |-> "medium"],
                        [type |-> "sell", indicator |-> "Death Cross", strength |-> "strong"]>>

\* a signal of the family and side among the signals of an indicator set
HasSignal(set, side, family) ==
    \E i \in 1..Len(set.signals) :
        set.signals[i].type = side /\ set.signals[i].indicator = family

\* C28: in every indicator set getTechnicalIndicators returns from its try
\* block for non-negative closes, the trend and the cross signals agree:
\* uptrend iff the signals hold a Golden Cross buy, downtrend iff they hold a
\* Death Cross sell, consolidating iff they hold neither.
C28_TrendAgreesWithCross ==
    Applied("getTechnicalIndicators") /\ "error" \notin DOMAIN result.value =>
        LET set == result.value
        IN  /\ set.trend = Str("uptrend") <=> HasSignal(set, "buy", "Golden Cross")
            /\ set.trend = Str("downtrend") <=> HasSignal(set, "sell", "Death Cross")
            /\ set.trend = Str("consolidating") <=>
                  /\ ~HasSignal(set, "buy", "Golden Cross")
                  /\ ~HasSignal(set, "sell", "Death Cross")

\* a rising series of 201 closes: the uptrend label beside a golden cross, and
\* an RSI sell next to it
C28_Witness ==
    /\ Applied("getTechnicalIndicators")
    /\ "error" \notin DOMAIN result.value
    /\ args.n = 201
    /\ args.old = 0
    /\ result.value.trend = Str("uptrend")
    /\ HasSignal(result.value, "buy", "Golden Cross")
    /\ HasSignal(result.value, "sell", "RSI")

\* C29: calculateTechnicalSignals scores every known RSI: for an rsi in
\* [0, 100], 0 and 100 included, the rsi entry carries a text other than
\* 'N/A', and the reading adds to the tallies on the side of the engine's own
\* classification: bullish for rsi <= 30 (oversold, buy), bearish for
\* rsi >= 70 (overbought, sell).
C29_EveryKnownRsiScored ==
    Scored /\ IsNum(args.technical.rsi) =>
        LET without == calculateTechnicalSignals([args.technical EXCEPT !.rsi = Null],
                                                 ScoredQuote)
            bull == result.value.bullishScore - without.bullishScore
            bear == result.value.bearishScore - without.bearishScore
        IN  /\ result.value.rsi.text # "N/A"
            /\ args.technical.rsi.v <= 30 => bull > 0 /\ bear = 0
            /\ args.technical.rsi.v >= 70 => bear > 0 /\ bull = 0

\* C30: every advice record POST /analysis/holdings returns, the degraded
\* HOLD record with confidence 0 included, is accepted by
\* PATCH /holdings/:id/ai-suggestions when sent back unchanged: the answer is
\* never the 400 for missing data, and on acceptance the stored
\* ai_suggestions carries the record's confidence, stopLoss, addMorePrice,
\* targetPrice and action.
C30_AdviceAccepted ==
    Applied("patchSuggestions") =>
        /\ result.status # 400
        /\ result.status = 200 =>
            \A f \in {"confidence", "stopLoss", "addMorePrice", "targetPrice", "action"} :
                result.body.data.ai_suggestions[f] = args.body[f]

StockServed == pc = "done" /\ op = "getStock"

\* the quote calls of a served request: all but the last entry of the log
BothQuotesFailed ==
    /\ Len(calls) = 3
    /\ calls[1].out.threw
    /\ calls[2].out.threw

\* C25: GET /stocks/:symbol answers success:false exactly when the quote
\* failed on both providers; a failed profile fetch or indicator computation
\* never fails the request, whose response then carries the sentinel
\* profile fields and the unknown indicators.
C25_StockFailsOnlyWithQuote ==
    StockServed =>
        LET flags == calls[Len(calls)]
            body == result.body
        IN  /\ ~body.success <=> BothQuotesFailed
            /\ ~body.success => result.status = 500 /\ body.error = calls[1].out.error
            /\ body.success /\ flags.profileFailed =>
                /\ body.data.name = Str(args.symbol)
                /\ body.data.profile =
                     [f \in ProfileFields \ {"name"} |-> SentinelProfile(args.symbol)[f]]
            /\ body.success /\ flags.indicatorsFailed =>
                /\ body.data.technical.rsi = Null
                /\ body.data.technical.ma50 = Null
                /\ body.data.technical.ma200 = Null
                /\ body.data.technical.volatility = Null
                /\ body.data.technical.macd = Null
                /\ body.data.technical.bollingerBands = Null
                /\ body.data.technical.trend = Str("unknown")
                /\ body.data.technical.signals = Arr(<<>>)

\* a request whose quote came from the secondary while every profile request
\* and the candle fetch failed: served all the same
C25_Witness ==
    /\ StockServed
    /\ Len(calls) = 3
    /\ calls[1].out.threw
    /\ calls[3].profileFailed
    /\ calls[3].indicatorsFailed
    /\ result.status = 200
    /\ result.body.success

====
